---- MODULE Spec2Model ----
(***************************************************************************)
(* Name-registration consensus subsystem of namecore: the transaction      *)
(* validator (CheckNameTransaction), the chain mutator                     *)
(* (ApplyNameTransaction, ExpireNames, UnexpireNames, CNameTxUndo), the    *)
(* consistency verifier (ValidateNameDB) and the mempool name index        *)
(* (CNameMemPool).                                                         *)
(*                                                                         *)
(* Byte strings are abstracted to small integers with a size function;     *)
(* Hash160 is an injective function of (rand, name).  Currency inputs and  *)
(* outputs are left out: a transaction carries only the inputs and outputs *)
(* the name rules look at.                                                 *)
(***************************************************************************)
EXTENDS Integers, Sequences, FiniteSets, TLC

(***************************************************************************)
(* Bounds of the model.                                                    *)
(***************************************************************************)
MaxHeight == 16
MaxTx == 4
MaxBlockTx == 2
MaxPoolTx == 2
\* Stands for the chain parameter NameExpirationDepth (constant schedule).
ExpDepth == 2

(***************************************************************************)
(* Program constants.                                                      *)
(***************************************************************************)
MAX_VALUE_LENGTH == 1023
MAX_NAME_LENGTH == 255
MIN_FIRSTUPDATE_DEPTH == 12
MEMPOOL_HEIGHT == 2147483647

(***************************************************************************)
(* 32-bit unsigned arithmetic.  A value below 2^31 stands for itself, a    *)
(* value u >= 2^31 is held as u - 2^32 (a negative number), so that sums   *)
(* and differences wrap as in C++.                                         *)
(***************************************************************************)
IntMax == MEMPOOL_HEIGHT
UAdd(a, b) ==
    IF a >= 0 /\ b >= 0 /\ a > IntMax - b
    THEN ((a - IntMax) + (b - IntMax)) - 2
    ELSE a + b
USub(a, b) == a - b
ULe(a, b) == IF (a >= 0) = (b >= 0) THEN a <= b ELSE b < 0
\* A comparison that also holds for equal operands.
ULtOrEqual(a, b) == ULe(a, b)

ULt(a, b) == a # b /\ ULe(a, b)

(***************************************************************************)
(* Byte strings.  Names, values and rands are integers; the size function  *)
(* of each gives the length of the byte string it stands for.              *)
(***************************************************************************)
Names == {1, 2}
LongNames == {3}
Values == {1, 2}
LongValues == {3}
Rands == {1, 2}
LongRands == {3}
Amounts == {0, 1}
\* Hashes of transactions first seen in a block, and of transactions first
\* seen by the memory pool.
BlockTxIds == 1 .. MaxTx
PoolTxIds == (MaxTx + 1) .. (MaxTx + MaxPoolTx)
TxIds == BlockTxIds \cup PoolTxIds

NameSize(n) == IF n \in LongNames THEN MAX_NAME_LENGTH + 1 ELSE n
ValueSize(v) == IF v \in LongValues THEN MAX_VALUE_LENGTH + 1 ELSE v
RandSize(r) == IF r \in LongRands THEN 21 ELSE 20

\* Hash160 (rand || name): injective on the modelled rands and names.
Hash160(rand, name) == 10 * rand + name
ShortHashes == {5}
HashSize(h) == IF h \in ShortHashes THEN 19 ELSE 20
\* The commitments NAME_NEW outputs of the chain carry are made with CommitRands.
CommitRands == {1}
Hashes == {Hash160(r, n) : r \in CommitRands, n \in Names}

(***************************************************************************)
(* Chain parameters.                                                       *)
(***************************************************************************)
\* The arguments of a direct call (of CheckNameTransaction, CheckNameDB or
\* ExpireNames).
VARIABLE call

\* The expiration depth is ExpDepth at every height, except on a direct call
\* of ExpireNames, which is made under the schedule drawn with the call.
NameExpirationDepth(nHeight) ==
    IF "schedule" \in DOMAIN call THEN call.schedule[nHeight] ELSE ExpDepth
MinNameCoinAmount(nHeight) == 1
\* The historic-bug table: five listed transactions (their hashes are those
\* of no transaction of the modelled chain), each at one height.
HistoricBugs ==
    {[txHash |-> 0, nHeight |-> 14, type |-> "BUG_FULLY_APPLY"],
     [txHash |-> 9, nHeight |-> 13, type |-> "BUG_IN_UTXO"],
     [txHash |-> 19, nHeight |-> 13, type |-> "BUG_FULLY_APPLY"],
     [txHash |-> 29, nHeight |-> 13, type |-> "BUG_FULLY_IGNORE"],
     [txHash |-> 39, nHeight |-> 14, type |-> "BUG_FULLY_IGNORE"]}
ListedHashes == {b.txHash : b \in HistoricBugs}
IsHistoricBug(txHash, nHeight) ==
    \E b \in HistoricBugs : b.txHash = txHash /\ b.nHeight = nHeight
BugType(txHash, nHeight) ==
    (CHOOSE b \in HistoricBugs : b.txHash = txHash /\ b.nHeight = nHeight).type

(***************************************************************************)
(* Name scripts (CNameScript), outputs, outpoints, transactions.           *)
(***************************************************************************)
\* Every name script also yields the address it locks the coin to.
Addr == "addr"
NoScript ==
    [op |-> "NONE", hash |-> 0, name |-> 0, rand |-> 0, value |-> 0, addr |-> Addr]
NameNew(h) ==
    [op |-> "NEW", hash |-> h, name |-> 0, rand |-> 0, value |-> 0, addr |-> Addr]
NameFirstUpdate(n, r, v) ==
    [op |-> "FIRSTUPDATE", hash |-> 0, name |-> n, rand |-> r, value |-> v,
     addr |-> Addr]
NameUpdate(n, v) ==
    [op |-> "UPDATE", hash |-> 0, name |-> n, rand |-> 0, value |-> v, addr |-> Addr]

isNameOp(script) == script.op # "NONE"
isAnyUpdate(script) == script.op \in {"FIRSTUPDATE", "UPDATE"}

TxOut(amount, script) == [nValue |-> amount, scriptPubKey |-> script]
\* A spent output (CTxOut::SetNull).
NullOut == [nValue |-> -1, scriptPubKey |-> NoScript]
IsNull(txout) == txout.nValue = -1

OutPoint(h, i) == [hash |-> h, n |-> i]

NoCoins == [nHeight |-> -1, vout |-> << >>]
\* "No record": what GetName reports as absent.
NoData == [value |-> 0, nHeight |-> -1, prevout |-> OutPoint(0, 0), addr |-> Addr]

(***************************************************************************)
(* isExpired (names/main.cpp).  The assertion nHeight != MEMPOOL_HEIGHT is *)
(* reported by isExpiredAsserts; the comparison is on 32-bit unsigned.    *)
(***************************************************************************)
isExpiredAsserts(nHeight) == nHeight = MEMPOOL_HEIGHT

\* An expiry test that lets a name live one block longer.
isExpiredStrictly(nPrevHeight, nHeight) ==
    IF nPrevHeight = MEMPOOL_HEIGHT
    THEN FALSE
    ELSE ULt(UAdd(nPrevHeight, NameExpirationDepth(nHeight)), nHeight)

isExpired(nPrevHeight, nHeight) ==
    IF nPrevHeight = MEMPOOL_HEIGHT
    THEN FALSE
    ELSE ULe(UAdd(nPrevHeight, NameExpirationDepth(nHeight)), nHeight)

\* CNameData::isExpired (unsigned h)
DataIsExpired(data, h) == isExpired(data.nHeight, h)

(***************************************************************************)
(* CheckNameTransaction (names/main.cpp).  A view is a record with the     *)
(* fields coins (txid -> CCoins or NoCoins) and names (name -> CNameData   *)
(* or NoData).  The result is "ok" or the kind of the failure; "FetchFail" *)
(* is the one failure that returns without marking the validation state,   *)
(* "AssertFail" a failed assertion.  Indices are 1-based, 0 stands for -1. *)
(***************************************************************************)
GetCoins(view, txid) == view.coins[txid]
HaveCoins(view, txid) == view.coins[txid] # NoCoins
GetName(view, name) ==
    IF name \in DOMAIN view.names THEN view.names[name] ELSE NoData
HaveName(view, name) == GetName(view, name) # NoData

\* A scan of the inputs that finds no name input.
ScanNameInputsFindsNone(vin, view, i, nameIn) == [err |-> "ok", nameIn |-> 0]

RECURSIVE ScanNameInputs(_, _, _, _)
ScanNameInputs(vin, view, i, nameIn) ==
    IF i > Len(vin)
    THEN [err |-> "ok", nameIn |-> nameIn]
    ELSE IF ~HaveCoins(view, vin[i].hash)
    THEN [err |-> "FetchFail", nameIn |-> nameIn]
    ELSE IF isNameOp(GetCoins(view, vin[i].hash).vout[vin[i].n].scriptPubKey)
    THEN IF nameIn # 0
         THEN [err |-> "MultipleNameInputs", nameIn |-> nameIn]
         ELSE ScanNameInputs(vin, view, i + 1, i)
    ELSE ScanNameInputs(vin, view, i + 1, nameIn)

\* A scan of the outputs that keeps a name output without looking for a
\* second one.
ScanNameOutputsFirstOnly(vout, i, nameOut) ==
    [err |-> "ok",
     nameOut |-> IF \E k \in 1 .. Len(vout) : isNameOp(vout[k].scriptPubKey)
                 THEN CHOOSE k \in 1 .. Len(vout) :
                          /\ isNameOp(vout[k].scriptPubKey)
                          /\ \A j \in 1 .. Len(vout) :
                                 isNameOp(vout[j].scriptPubKey) => j <= k
                 ELSE 0]

RECURSIVE ScanNameOutputs(_, _, _)
ScanNameOutputs(vout, i, nameOut) ==
    IF i > Len(vout)
    THEN [err |-> "ok", nameOut |-> nameOut]
    ELSE IF isNameOp(vout[i].scriptPubKey)
    THEN IF nameOut # 0
         THEN [err |-> "MultipleNameOutputs", nameOut |-> nameOut]
         ELSE ScanNameOutputs(vout, i + 1, i)
    ELSE ScanNameOutputs(vout, i + 1, nameOut)

\* A NAME_NEW that counts as mature at every height.
NewIsNeverImmature(coinsIn, nHeight) == FALSE

\* coinsIn.nHeight + MIN_FIRSTUPDATE_DEPTH > nHeight (line 496)
NewIsImmature(coinsIn, nHeight) ==
    ULt(nHeight, UAdd(coinsIn.nHeight, MIN_FIRSTUPDATE_DEPTH))

\* A commitment test that lets every rand pass.
CommitmentAlwaysMatches(nameOpOut, nameOpIn) == TRUE

\* Hash160 (rand || name) is the hash of the NAME_NEW input (lines 506-513).
CommitmentMatches(nameOpOut, nameOpIn) ==
    Hash160(nameOpOut.rand, nameOpOut.name) = nameOpIn.hash

\* A CheckNameUpdateOps without any test but the presence of a name input.
CheckNameUpdateOpsNoLimits(nameOpOut, nameOpIn, coinsIn, haveIn, nHeight, view, fMempool) ==
    IF haveIn THEN "ok" ELSE "UpdateWithoutNameInput"

\* The part after NAME_NEW has been ruled out (main.cpp lines 447-524).
CheckNameUpdateOps(nameOpOut, nameOpIn, coinsIn, haveIn, nHeight, view, fMempool) ==
    LET name == nameOpOut.name IN
    IF ~haveIn THEN "UpdateWithoutNameInput"
    ELSE IF NameSize(name) > MAX_NAME_LENGTH THEN "NameTooLong"
    ELSE IF ValueSize(nameOpOut.value) > MAX_VALUE_LENGTH THEN "ValueTooLong"
    ELSE IF nameOpOut.op = "UPDATE"
    THEN IF ~isAnyUpdate(nameOpIn) THEN "UpdatePrevNotUpdate"
         ELSE IF name # nameOpIn.name THEN "UpdateNameMismatch"
         ELSE IF isExpiredAsserts(nHeight) THEN "AssertFail"
         ELSE IF isExpired(coinsIn.nHeight, nHeight) THEN "UpdateOnExpiredName"
         ELSE "ok"
    ELSE IF nameOpIn.op # "NEW" THEN "FirstUpdateWithoutNew"
    ELSE IF ~fMempool /\ coinsIn.nHeight = MEMPOOL_HEIGHT THEN "AssertFail"
    ELSE IF ~fMempool /\ NewIsImmature(coinsIn, nHeight)
    THEN "FirstUpdateWithoutMatureNew"
    ELSE IF RandSize(nameOpOut.rand) > 20 THEN "RandTooLong"
    ELSE IF ~CommitmentMatches(nameOpOut, nameOpIn)
    THEN "FirstUpdateCommitmentMismatch"
    ELSE IF HaveName(view, name) /\ isExpiredAsserts(nHeight) THEN "AssertFail"
    ELSE IF HaveName(view, name) /\ ~DataIsExpired(GetName(view, name), nHeight)
    THEN "FirstUpdateOnLiveName"
    ELSE "ok"

\* The rule of the earlier CheckNameTransaction: greedy names are rejected
\* for the memory pool only.
GreedyNameInPoolOnly(tx, nameOut, nHeight) ==
    /\ nHeight = MEMPOOL_HEIGHT
    /\ tx.vout[nameOut].nValue < MinNameCoinAmount(nHeight)

\* Reject "greedy names" (lines 427-429).
GreedyName(tx, nameOut, nHeight) ==
    tx.vout[nameOut].nValue < MinNameCoinAmount(nHeight)

\* The checks after the historic bugs have been ruled out (lines 364-525).
CheckNameOperation(tx, nHeight, view, fMempool) ==
    LET ins == ScanNameInputs(tx.vin, view, 1, 0) IN
    IF ins.err # "ok" THEN ins.err
    ELSE
    LET outs == ScanNameOutputs(tx.vout, 1, 0) IN
    IF outs.err # "ok" THEN outs.err
    ELSE
    LET nameIn == ins.nameIn
        nameOut == outs.nameOut
        coinsIn == IF nameIn = 0 THEN NoCoins
                   ELSE GetCoins(view, tx.vin[nameIn].hash)
        nameOpIn == IF nameIn = 0 THEN NoScript
                    ELSE coinsIn.vout[tx.vin[nameIn].n].scriptPubKey
        nameOpOut == IF nameOut = 0 THEN NoScript
                     ELSE tx.vout[nameOut].scriptPubKey
    IN
    IF ~tx.namecoin
    THEN IF nameIn # 0 \/ nameOut # 0 THEN "NonNameTxHasNameIO" ELSE "ok"
    ELSE IF nameOut = 0 THEN "NameTxWithoutNameOutput"
    ELSE IF GreedyName(tx, nameOut, nHeight) THEN "GreedyName"
    ELSE IF nameOpOut.op = "NEW"
    THEN IF nameIn # 0 THEN "NewWithNameInput"
         ELSE IF HashSize(nameOpOut.hash) # 20 THEN "BadNewHashSize"
         ELSE "ok"
    ELSE CheckNameUpdateOps(nameOpOut, nameOpIn, coinsIn, nameIn # 0, nHeight,
                            view, fMempool)

\* A CheckNameTransaction that does not look at the historic bugs.
CheckWithoutBypass(tx, nHeight, view, fMempool) ==
    CheckNameOperation(tx, nHeight, view, fMempool)

CheckNameTransactionResult(tx, nHeight, view, fMempool) ==
    IF IsHistoricBug(tx.hash, nHeight) THEN "ok"
    ELSE CheckNameOperation(tx, nHeight, view, fMempool)

CheckNameTransaction(tx, nHeight, view, fMempool) ==
    CheckNameTransactionResult(tx, nHeight, view, fMempool) = "ok"

(***************************************************************************)
(* The UTXO collaborator (CCoins, CCoinsViewCache), as far as the name     *)
(* code uses it.  A view has the fields coins, names, expire (the expire   *)
(* index, a set of <<height, name>>) and history (name -> sequence of      *)
(* CNameData).                                                             *)
(***************************************************************************)
RECURSIVE Cleanup(_)
Cleanup(vout) ==
    IF vout # << >> /\ IsNull(vout[Len(vout)])
    THEN Cleanup(SubSeq(vout, 1, Len(vout) - 1))
    ELSE vout

IsAvailable(coins, n) == n >= 1 /\ n <= Len(coins.vout) /\ ~IsNull(coins.vout[n])

\* CCoins::Spend with its undo record; a pruned CCoins is stored as NoCoins.
SpendUndo(coins, n) ==
    LET rest == Cleanup([coins.vout EXCEPT ![n] = NullOut]) IN
    [txout |-> coins.vout[n], nHeight |-> IF rest = << >> THEN coins.nHeight ELSE 0]

SpendCoins(coins, n) ==
    LET rest == Cleanup([coins.vout EXCEPT ![n] = NullOut]) IN
    IF rest = << >> THEN NoCoins ELSE [coins EXCEPT !.vout = rest]

SpendOutput(view, out) ==
    [view EXCEPT !.coins[out.hash] = SpendCoins(view.coins[out.hash], out.n)]

\* vout resized to hold index n, then vout[n] = txout.
PutOut(vout, n, txout) ==
    [i \in 1 .. (IF n > Len(vout) THEN n ELSE Len(vout)) |->
        IF i = n THEN txout ELSE IF i <= Len(vout) THEN vout[i] ELSE NullOut]

\* ApplyTxInUndo: restore a spent output; fClean reports a clean restore.
ApplyTxInUndoClean(undo, view, out) ==
    LET coins == view.coins[out.hash] IN
    /\ (undo.nHeight # 0) = (coins = NoCoins)
    /\ ~IsAvailable(coins, out.n)

ApplyTxInUndo(undo, view, out) ==
    LET coins == view.coins[out.hash]
        base == IF undo.nHeight # 0
                THEN [nHeight |-> undo.nHeight, vout |-> << >>]
                ELSE coins
    IN [view EXCEPT !.coins[out.hash] =
            [base EXCEPT !.vout = PutOut(base.vout, out.n, undo.txout)]]

(***************************************************************************)
(* CNameCache bookkeeping behind CCoinsViewCache::SetName / DeleteName.    *)
(***************************************************************************)
addExpireIndex(view, name, height) ==
    [view EXCEPT !.expire = @ \cup {<<height, name>>}]

\* A removal that leaves the entry in place.
removeExpireIndexKeeps(view, name, height) == view

removeExpireIndex(view, name, height) ==
    [view EXCEPT !.expire = @ \ {<<height, name>>}]

GetNamesForHeight(view, nHeight) == {e[2] : e \in {x \in view.expire : x[1] = nHeight}}

\* SetName (name, data, undo): the old expire-index entry is removed, the
\* history pushed (or popped on undo), the record set, the new entry added.
SetName(view, name, data, undo) ==
    LET old == GetName(view, name)
        v1 == IF old # NoData
              THEN [removeExpireIndex(view, name, old.nHeight) EXCEPT
                        !.history[name] =
                            IF undo THEN SubSeq(@, 1, Len(@) - 1)
                            ELSE Append(@, old)]
              ELSE view
        v2 == [v1 EXCEPT !.names[name] = data]
    IN addExpireIndex(v2, name, data.nHeight)

DeleteName(view, name) ==
    LET old == GetName(view, name)
        v1 == removeExpireIndex(view, name, old.nHeight)
    IN [v1 EXCEPT !.names[name] = NoData]

(***************************************************************************)
(* CNameTxUndo and CNameData::fromScript.                                  *)
(***************************************************************************)
fromOldState(nm, view) ==
    [name |-> nm, isNew |-> ~HaveName(view, nm), oldData |-> GetName(view, nm)]

\* An undo that deletes the name whether or not it existed before.
NameTxUndoAlwaysDeletes(opUndo, view) == DeleteName(view, opUndo.name)

NameTxUndoApply(opUndo, view) ==
    IF opUndo.isNew
    THEN DeleteName(view, opUndo.name)
    ELSE SetName(view, opUndo.name, opUndo.oldData, TRUE)

fromScript(h, out, script) ==
    [value |-> script.value, nHeight |-> h, prevout |-> out, addr |-> script.addr]

(***************************************************************************)
(* ApplyNameTransaction: the outputs in index order; the result is the     *)
(* view and the undo list vnameundo.                                       *)
(***************************************************************************)
\* An application that takes the undo record after the record has been set.
RECURSIVE ApplyNameOutputsUndoLate(_, _, _, _, _)
ApplyNameOutputsUndoLate(tx, nHeight, view, vnameundo, i) ==
    IF i > Len(tx.vout)
    THEN [view |-> view, vnameundo |-> vnameundo]
    ELSE LET op == tx.vout[i].scriptPubKey
             set == SetName(view, op.name,
                            fromScript(nHeight, OutPoint(tx.hash, i), op), FALSE)
         IN
         IF isNameOp(op) /\ isAnyUpdate(op)
         THEN ApplyNameOutputsUndoLate(tx, nHeight, set,
                  Append(vnameundo, fromOldState(op.name, set)), i + 1)
         ELSE ApplyNameOutputsUndoLate(tx, nHeight, view, vnameundo, i + 1)

RECURSIVE ApplyNameOutputs(_, _, _, _, _)
ApplyNameOutputs(tx, nHeight, view, vnameundo, i) ==
    IF i > Len(tx.vout)
    THEN [view |-> view, vnameundo |-> vnameundo]
    ELSE LET op == tx.vout[i].scriptPubKey IN
         IF isNameOp(op) /\ isAnyUpdate(op)
         THEN ApplyNameOutputs(tx, nHeight,
                  SetName(view, op.name,
                          fromScript(nHeight, OutPoint(tx.hash, i), op), FALSE),
                  Append(vnameundo, fromOldState(op.name, view)), i + 1)
         ELSE ApplyNameOutputs(tx, nHeight, view, vnameundo, i + 1)

\* BUG_FULLY_IGNORE: the update outputs of the transaction are spent.
RECURSIVE SpendBuggyOutputs(_, _, _)
SpendBuggyOutputs(tx, view, i) ==
    IF i > Len(tx.vout) THEN view
    ELSE IF /\ isNameOp(tx.vout[i].scriptPubKey)
            /\ isAnyUpdate(tx.vout[i].scriptPubKey)
            /\ IsAvailable(view.coins[tx.hash], i)
    THEN SpendBuggyOutputs(tx, SpendOutput(view, OutPoint(tx.hash, i)), i + 1)
    ELSE SpendBuggyOutputs(tx, view, i + 1)

\* An application that looks at the Namecoin flag before the historic bugs.
ApplyNameTransactionFlagFirst(tx, nHeight, view, vnameundo) ==
    IF ~tx.namecoin
    THEN [view |-> view, vnameundo |-> vnameundo]
    ELSE IF IsHistoricBug(tx.hash, nHeight)
               /\ BugType(tx.hash, nHeight) # "BUG_FULLY_APPLY"
    THEN [view |-> IF BugType(tx.hash, nHeight) = "BUG_FULLY_IGNORE"
                   THEN SpendBuggyOutputs(tx, view, 1) ELSE view,
          vnameundo |-> vnameundo]
    ELSE ApplyNameOutputs(tx, nHeight, view, vnameundo, 1)

ApplyNameTransaction(tx, nHeight, view, vnameundo) ==
    IF IsHistoricBug(tx.hash, nHeight)
          /\ BugType(tx.hash, nHeight) # "BUG_FULLY_APPLY"
    THEN [view |-> IF BugType(tx.hash, nHeight) = "BUG_FULLY_IGNORE"
                   THEN SpendBuggyOutputs(tx, view, 1) ELSE view,
          vnameundo |-> vnameundo]
    ELSE IF ~tx.namecoin
    THEN [view |-> view, vnameundo |-> vnameundo]
    ELSE ApplyNameOutputs(tx, nHeight, view, vnameundo, 1)

(***************************************************************************)
(* ExpireNames.  The result has ok ("ok", "fail" for a returned error,     *)
(* "AssertFail"), the view, the expire-undo list vexpired and the set of   *)
(* expired names.  std::set is walked in ascending order.                  *)
(***************************************************************************)
PostmortemHeight == 175868
\* The name standing for "d/postmortem".
PostmortemNames == {2}

MinOf(S) == CHOOSE x \in S : \A y \in S : x <= y

\* ExpireNames that spends no coin.
ExpireLoopKeepsCoins(nHeight, view, vexpired, names, todo) ==
    [ok |-> "ok", view |-> view, vexpired |-> vexpired, names |-> names]

\* The loop of ExpireNames without the special rule for d/postmortem.
RECURSIVE ExpireLoopNoSpecialRule(_, _, _, _, _)
ExpireLoopNoSpecialRule(nHeight, view, vexpired, names, todo) ==
    IF todo = {}
    THEN [ok |-> "ok", view |-> view, vexpired |-> vexpired, names |-> names]
    ELSE
    LET i == MinOf(todo)
        data == GetName(view, i)
        out == data.prevout
        coins == view.coins[out.hash]
        fail == [ok |-> "fail", view |-> view, vexpired |-> vexpired,
                 names |-> names]
    IN
    IF data = NoData THEN fail
    ELSE IF ~DataIsExpired(data, nHeight) THEN fail
    ELSE IF ~IsAvailable(coins, out.n) THEN fail
    ELSE IF \/ ~isNameOp(coins.vout[out.n].scriptPubKey)
            \/ ~isAnyUpdate(coins.vout[out.n].scriptPubKey)
            \/ coins.vout[out.n].scriptPubKey.name # i
    THEN fail
    ELSE ExpireLoopNoSpecialRule(nHeight, SpendOutput(view, out),
                                 Append(vexpired, SpendUndo(coins, out.n)),
                                 names, todo \ {i})

RECURSIVE ExpireLoop(_, _, _, _, _)
ExpireLoop(nHeight, view, vexpired, names, todo) ==
    IF todo = {}
    THEN [ok |-> "ok", view |-> view, vexpired |-> vexpired, names |-> names]
    ELSE
    LET i == MinOf(todo)
        data == GetName(view, i)
        out == data.prevout
        coins == view.coins[out.hash]
        fail == [ok |-> "fail", view |-> view, vexpired |-> vexpired,
                 names |-> names]
    IN
    IF data = NoData THEN fail
    ELSE IF ~DataIsExpired(data, nHeight) THEN fail
    ELSE IF nHeight = PostmortemHeight /\ i \in PostmortemNames
    THEN ExpireLoop(nHeight, view, vexpired, names, todo \ {i})
    ELSE IF ~IsAvailable(coins, out.n) THEN fail
    ELSE IF \/ ~isNameOp(coins.vout[out.n].scriptPubKey)
            \/ ~isAnyUpdate(coins.vout[out.n].scriptPubKey)
            \/ coins.vout[out.n].scriptPubKey.name # i
    THEN fail
    ELSE ExpireLoop(nHeight, SpendOutput(view, out),
                    Append(vexpired, SpendUndo(coins, out.n)), names, todo \ {i})

\* ExpireNames that also drops the expire-index entries of the names it
\* expires.
ExpireNamesDropsIndex(nHeight, view, vexpired) ==
    LET h == nHeight - NameExpirationDepth(nHeight)
        names == GetNamesForHeight(view, h)
        ex == ExpireLoop(nHeight, view, vexpired, names, names)
    IN [ex EXCEPT !.view.expire = {e \in @ : e[1] # h}]

\* ExpireNames that looks one height too far back: a name expires one
\* block late.
ExpireNamesLate(nHeight, view, vexpired) ==
    LET names == GetNamesForHeight(view, nHeight - NameExpirationDepth(nHeight) - 1)
    IN ExpireLoop(nHeight, view, vexpired, names, names)

ExpireNames(nHeight, view, vexpired) ==
    LET expDepthOld == NameExpirationDepth(nHeight - 1)
        expDepthNow == NameExpirationDepth(nHeight)
        expireFrom == USub(nHeight, expDepthOld)
        expireTo == USub(nHeight, expDepthNow)
        names == UNION {GetNamesForHeight(view, h) : h \in expireFrom .. expireTo}
        none == [ok |-> "ok", view |-> view, vexpired |-> vexpired, names |-> {}]
    IN
    IF nHeight = 0 THEN none
    ELSE IF expDepthNow > nHeight THEN none
    ELSE IF ~ULe(expireFrom, UAdd(expireTo, 1))
    THEN [none EXCEPT !.ok = "AssertFail"]
    ELSE ExpireLoop(nHeight, view, vexpired, names, names)

(***************************************************************************)
(* UnexpireNames: the expire-undo list in reverse.                         *)
(***************************************************************************)
RECURSIVE UnexpireLoop(_, _, _, _, _)
UnexpireLoop(nHeight, vexpired, view, names, k) ==
    IF k = 0
    THEN [ok |-> TRUE, view |-> view, names |-> names]
    ELSE
    LET nameOp == vexpired[k].txout.scriptPubKey
        name == nameOp.name
        data == GetName(view, name)
        fail == [ok |-> FALSE, view |-> view, names |-> names]
    IN
    IF ~isNameOp(nameOp) \/ ~isAnyUpdate(nameOp) THEN fail
    ELSE IF name \in names THEN fail
    ELSE IF data = NoData THEN [fail EXCEPT !.names = names \cup {name}]
    ELSE IF ~DataIsExpired(data, nHeight) \/ DataIsExpired(data, nHeight - 1)
    THEN [fail EXCEPT !.names = names \cup {name}]
    ELSE IF ~ApplyTxInUndoClean(vexpired[k], view, data.prevout)
    THEN [ok |-> FALSE, view |-> ApplyTxInUndo(vexpired[k], view, data.prevout),
          names |-> names \cup {name}]
    ELSE UnexpireLoop(nHeight, vexpired,
                      ApplyTxInUndo(vexpired[k], view, data.prevout),
                      names \cup {name}, k - 1)

\* UnexpireNames that restores nothing.
UnexpireNamesRestoresNothing(nHeight, vexpired, view) ==
    [ok |-> TRUE, view |-> view,
     names |-> {vexpired[k].txout.scriptPubKey.name : k \in 1 .. Len(vexpired)}]

UnexpireNames(nHeight, vexpired, view) ==
    IF nHeight = 0
    THEN [ok |-> TRUE, view |-> view, names |-> {}]
    ELSE UnexpireLoop(nHeight, vexpired, view, {}, Len(vexpired))

(***************************************************************************)
(* CCoinsViewDB::ValidateNameDB at tip height nHeight.                     *)
(***************************************************************************)
UpdateOutpoints(view) ==
    {o \in UNION {{OutPoint(t, i) : i \in 1 .. Len(view.coins[t].vout)} :
                   t \in TxIds} :
        /\ IsAvailable(view.coins[o.hash], o.n)
        /\ isNameOp(view.coins[o.hash].vout[o.n].scriptPubKey)
        /\ isAnyUpdate(view.coins[o.hash].vout[o.n].scriptPubKey)}

OutpointName(view, o) == view.coins[o.hash].vout[o.n].scriptPubKey.name

\* ValidateNameDB that does not look for a name in two unspent outputs.
ValidateNameDBIgnoresDuplicates(view, nHeight) ==
    LET utxo == UpdateOutpoints(view)
        namesInUTXO == {OutpointName(view, o) : o \in utxo}
        nameHeightsData ==
            {<<n, view.names[n].nHeight>> :
                n \in {m \in DOMAIN view.names : view.names[m] # NoData}}
        namesInDB ==
            {n \in DOMAIN view.names :
                view.names[n] # NoData /\ ~DataIsExpired(view.names[n], nHeight)}
        nameHeightsIndex == {<<e[2], e[1]>> : e \in view.expire}
    IN
    /\ \A e1, e2 \in view.expire : e1[2] = e2[2] => e1 = e2
    /\ nameHeightsIndex = nameHeightsData
    /\ namesInDB = namesInUTXO

ValidateNameDB(view, nHeight) ==
    LET utxo == UpdateOutpoints(view)
        namesInUTXO == {OutpointName(view, o) : o \in utxo}
        nameHeightsData ==
            {<<n, view.names[n].nHeight>> :
                n \in {m \in DOMAIN view.names : view.names[m] # NoData}}
        namesInDB ==
            {n \in DOMAIN view.names :
                view.names[n] # NoData /\ ~DataIsExpired(view.names[n], nHeight)}
        nameHeightsIndex == {<<e[2], e[1]>> : e \in view.expire}
    IN
    /\ \A o1, o2 \in utxo :
          OutpointName(view, o1) = OutpointName(view, o2) => o1 = o2
    /\ \A e1, e2 \in view.expire : e1[2] = e2[2] => e1 = e2
    /\ nameHeightsIndex = nameHeightsData
    /\ namesInDB = namesInUTXO

(***************************************************************************)
(* State.                                                                  *)
(*   tip    chainActive.Height ()                                          *)
(*   view   the coins view ConnectBlock works on: UTXO set, name table,    *)
(*          expire index, history                                          *)
(*   base   pcoinsTip, the view of the last committed block                *)
(*   chain  the connected blocks above genesis with their CBlockUndo       *)
(*   cur    the block being connected at height tip + 1: its transactions  *)
(*          so far, their spent inputs and the name undo list              *)
(*   mapTx, mapNameRegs, mapNameUpdates, mapNameNews   the memory pool      *)
(*   poolAbort   an assertion of the memory pool's name code has failed     *)
(*   call   the arguments of a direct call (declared with the parameters)  *)
(*   result what that call returned                                         *)
(***************************************************************************)
VARIABLES tip, view, base, chain, cur, result,
          mapTx, mapNameRegs, mapNameUpdates, mapNameNews, poolAbort

vars == <<tip, view, base, chain, cur, call, result,
          mapTx, mapNameRegs, mapNameUpdates, mapNameNews, poolAbort>>

chainVars == <<tip, view, base, chain, cur>>
checkVars == <<call, result>>
poolVars == <<mapTx, mapNameRegs, mapNameUpdates, mapNameNews, poolAbort>>

SeqRange(sq) == {sq[i] : i \in 1 .. Len(sq)}

(***************************************************************************)
(* The memory pool.  An entry is a transaction with the name operation the *)
(* CTxMemPoolEntry constructor caches for it.  The three name maps are     *)
(* sets of <<key, transaction hash>> pairs.                                *)
(***************************************************************************)
pool ==
    [mapTx |-> mapTx, mapNameRegs |-> mapNameRegs,
     mapNameUpdates |-> mapNameUpdates, mapNameNews |-> mapNameNews,
     abort |-> poolAbort]

EmptyPool ==
    [mapTx |-> {}, mapNameRegs |-> {}, mapNameUpdates |-> {},
     mapNameNews |-> {}, abort |-> FALSE]

InitEmptyPool ==
    /\ mapTx = {}
    /\ mapNameRegs = {}
    /\ mapNameUpdates = {}
    /\ mapNameNews = {}
    /\ poolAbort = FALSE

SetPool(p) ==
    /\ mapTx' = p.mapTx
    /\ mapNameRegs' = p.mapNameRegs
    /\ mapNameUpdates' = p.mapNameUpdates
    /\ mapNameNews' = p.mapNameNews
    /\ poolAbort' = p.abort

\* CTxMemPoolEntry: the name operation is the name output of a Namecoin
\* transaction.
EntryNameOp(tx) ==
    IF tx.namecoin /\ \E i \in 1 .. Len(tx.vout) : isNameOp(tx.vout[i].scriptPubKey)
    THEN tx.vout[CHOOSE i \in 1 .. Len(tx.vout) :
                     isNameOp(tx.vout[i].scriptPubKey)].scriptPubKey
    ELSE NoScript

Entry(tx) == [hash |-> tx.hash, tx |-> tx, nameOp |-> EntryNameOp(tx)]

isNameNew(entry) == isNameOp(entry.nameOp) /\ entry.nameOp.op = "NEW"
isNameRegistration(entry) == isNameOp(entry.nameOp) /\ entry.nameOp.op = "FIRSTUPDATE"
isNameUpdate(entry) == isNameOp(entry.nameOp) /\ entry.nameOp.op = "UPDATE"

MapCount(map, key) == Cardinality({r \in map : r[1] = key})
\* A lookup that finds no pending registration.
registersNothing(p, name) == FALSE

registersName(p, name) == MapCount(p.mapNameRegs, name) > 0
updatesName(p, name) == MapCount(p.mapNameUpdates, name) > 0

\* A check that lets every transaction pass.
checkTxAcceptsAll(p, tx) == TRUE

\* CNameMemPool::checkTx
checkTx(p, tx) ==
    IF ~tx.namecoin THEN TRUE
    ELSE \A i \in 1 .. Len(tx.vout) :
            LET nameOp == tx.vout[i].scriptPubKey IN
            isNameOp(nameOp) =>
                CASE nameOp.op = "NEW" ->
                        ~\E r \in p.mapNameNews :
                            r[1] = nameOp.hash /\ r[2] # tx.hash
                  [] nameOp.op = "FIRSTUPDATE" -> ~registersName(p, nameOp.name)
                  [] nameOp.op = "UPDATE" -> ~updatesName(p, nameOp.name)

\* CNameMemPool::checkTx as it was before NAME_NEW was tracked.
checkTxLegacy(p, tx) ==
    IF ~tx.namecoin THEN TRUE
    ELSE \A i \in 1 .. Len(tx.vout) :
            LET nameOp == tx.vout[i].scriptPubKey IN
            (isNameOp(nameOp) /\ isAnyUpdate(nameOp)) =>
                /\ ~(nameOp.op = "FIRSTUPDATE" /\ registersName(p, nameOp.name))
                /\ ~(nameOp.op = "UPDATE" /\ updatesName(p, nameOp.name))

\* CNameMemPool::addUnchecked.  A failed assertion sets abort; std::map's
\* insert leaves an existing key alone.
addUnchecked(p, hash, entry) ==
    LET news == IF isNameNew(entry) /\ MapCount(p.mapNameNews, entry.nameOp.hash) = 0
                THEN p.mapNameNews \cup {<<entry.nameOp.hash, hash>>}
                ELSE p.mapNameNews
        newsOk == isNameNew(entry) =>
                     \A r \in p.mapNameNews : r[1] = entry.nameOp.hash => r[2] = hash
        regsOk == isNameRegistration(entry) =>
                     MapCount(p.mapNameRegs, entry.nameOp.name) = 0
        updsOk == isNameUpdate(entry) =>
                     MapCount(p.mapNameUpdates, entry.nameOp.name) = 0
    IN [p EXCEPT
          !.mapNameNews = news,
          !.mapNameRegs = IF isNameRegistration(entry) /\ regsOk
                          THEN @ \cup {<<entry.nameOp.name, hash>>} ELSE @,
          !.mapNameUpdates = IF isNameUpdate(entry) /\ updsOk
                             THEN @ \cup {<<entry.nameOp.name, hash>>} ELSE @,
          !.abort = @ \/ ~newsOk \/ ~regsOk \/ ~updsOk]

\* CNameMemPool::remove
remove(p, entry) ==
    [p EXCEPT
        !.mapNameRegs = IF isNameRegistration(entry)
                        THEN {r \in @ : r[1] # entry.nameOp.name} ELSE @,
        !.mapNameUpdates = IF isNameUpdate(entry)
                           THEN {r \in @ : r[1] # entry.nameOp.name} ELSE @,
        !.abort = @ \/ (isNameRegistration(entry)
                           /\ MapCount(p.mapNameRegs, entry.nameOp.name) = 0)
                    \/ (isNameUpdate(entry)
                           /\ MapCount(p.mapNameUpdates, entry.nameOp.name) = 0)]

\* CTxMemPool::addUnchecked: the entry enters mapTx and the name maps.
PoolAddUnchecked(p, tx) ==
    addUnchecked([p EXCEPT !.mapTx = @ \cup {Entry(tx)}], tx.hash, Entry(tx))

\* CTxMemPool::remove of the entries with the given hashes.
RECURSIVE PoolRemove(_, _)
PoolRemove(p, hashes) ==
    LET found == {e \in p.mapTx : e.hash \in hashes} IN
    IF found = {} THEN p
    ELSE LET e == CHOOSE x \in found : \A y \in found : x.hash <= y.hash
         IN PoolRemove(remove([p EXCEPT !.mapTx = @ \ {e}], e), hashes \ {e.hash})

\* The hashes a name map holds for the given names; each must be in mapTx.
MapHashes(map, names) == {r[2] : r \in {x \in map : x[1] \in names}}

RemoveMapped(p, hashes) ==
    LET q == PoolRemove(p, hashes) IN
    [q EXCEPT !.abort = @ \/ \E h \in hashes : ~\E e \in p.mapTx : e.hash = h]

\* A removeConflicts that leaves the pool as it is.
removeConflictsKeeps(p, tx) == p

\* CNameMemPool::removeConflicts
removeConflicts(p, tx) ==
    IF ~tx.namecoin THEN p
    ELSE RemoveMapped(p, MapHashes(p.mapNameRegs,
             {tx.vout[i].scriptPubKey.name :
                 i \in {k \in 1 .. Len(tx.vout) :
                           /\ isNameOp(tx.vout[k].scriptPubKey)
                           /\ tx.vout[k].scriptPubKey.op = "FIRSTUPDATE"}}))

\* Evictions that leave the pool as it is.
removeUnexpireConflictsKeeps(p, unexpired) == p
removeExpireConflictsKeeps(p, expired) == p

\* CNameMemPool::removeUnexpireConflicts
removeUnexpireConflicts(p, unexpired) ==
    RemoveMapped(p, MapHashes(p.mapNameRegs, unexpired))

\* CNameMemPool::removeExpireConflicts
removeExpireConflicts(p, expired) ==
    RemoveMapped(p, MapHashes(p.mapNameUpdates, expired))

\* CNameMemPool::check at tip height nHeight: all assertions hold.
check(p, v, nHeight) ==
    /\ \A e \in p.mapTx :
          /\ isNameNew(e) => <<e.nameOp.hash, e.hash>> \in p.mapNameNews
          /\ isNameRegistration(e) =>
                /\ <<e.nameOp.name, e.hash>> \in p.mapNameRegs
                /\ MapCount(p.mapNameRegs, e.nameOp.name) = 1
                /\ \A f \in p.mapTx :
                      (isNameRegistration(f) /\ f.nameOp.name = e.nameOp.name)
                          => f = e
                /\ HaveName(v, e.nameOp.name) =>
                      DataIsExpired(GetName(v, e.nameOp.name), nHeight + 1)
          /\ isNameUpdate(e) =>
                /\ <<e.nameOp.name, e.hash>> \in p.mapNameUpdates
                /\ MapCount(p.mapNameUpdates, e.nameOp.name) = 1
                /\ \A f \in p.mapTx :
                      (isNameUpdate(f) /\ f.nameOp.name = e.nameOp.name) => f = e
                /\ HaveName(v, e.nameOp.name)
                /\ ~DataIsExpired(GetName(v, e.nameOp.name), nHeight + 1)
    /\ Cardinality({e.nameOp.name : e \in {x \in p.mapTx : isNameRegistration(x)}})
          = Cardinality(p.mapNameRegs)
    /\ Cardinality({e.nameOp.name : e \in {x \in p.mapTx : isNameUpdate(x)}})
          = Cardinality(p.mapNameUpdates)

\* CTxMemPool::removeConflicts: the entries that spend an input of tx go,
\* then the name conflicts.
PoolRemoveConflicts(p, tx) ==
    LET spenders == {e \in p.mapTx :
                        /\ e.hash # tx.hash
                        /\ SeqRange(e.tx.vin) \cap SeqRange(tx.vin) # {}}
    IN removeConflicts(PoolRemove(p, {e.hash : e \in spenders}), tx)

\* CTxMemPool::removeForBlock
RECURSIVE removeForBlock(_, _, _)
removeForBlock(p, vtx, i) ==
    IF i > Len(vtx) THEN p
    ELSE removeForBlock(PoolRemoveConflicts(PoolRemove(p, {vtx[i].hash}), vtx[i]),
                        vtx, i + 1)

\* The entries that spend an output of one of the given transactions.
PoolSpenders(p, hashes) ==
    {e.hash : e \in {x \in p.mapTx :
                        \E k \in 1 .. Len(x.tx.vin) : x.tx.vin[k].hash \in hashes}}

EmptyView ==
    [coins |-> [t \in TxIds |-> NoCoins],
     names |-> [n \in Names |-> NoData],
     expire |-> {},
     history |-> [n \in Names |-> << >>]]

EmptyBlock == [vtx |-> << >>, vtxundo |-> << >>, vnameundo |-> << >>]

\* No block is half connected: the view is the one of a committed tip.
Committed == cur = EmptyBlock

\* No direct call of CheckNameTransaction is under way.
NoCall == [made |-> FALSE]

InitChain ==
    /\ tip = 0
    /\ view = EmptyView
    /\ base = EmptyView
    /\ chain = << >>
    /\ cur = EmptyBlock

Init ==
    /\ InitChain
    /\ call = NoCall
    /\ result = "none"
    /\ InitEmptyPool

(***************************************************************************)
(* Transactions offered to a block.  A transaction's hash is the smallest  *)
(* id no transaction of the chain carries.                                 *)
(***************************************************************************)
ChainTxIds ==
    {t.hash : t \in UNION {SeqRange(chain[h].vtx) : h \in 1 .. Len(chain)}}
        \cup {t.hash : t \in SeqRange(cur.vtx)}

FreeTxIds == BlockTxIds \ ChainTxIds

AvailableOutpoints(v) ==
    {o \in UNION {{OutPoint(t, i) : i \in 1 .. Len(v.coins[t].vout)} :
                   t \in TxIds} : IsAvailable(v.coins[o.hash], o.n)}

NameScripts ==
    {NameNew(h) : h \in Hashes \cup ShortHashes}
        \cup {NameFirstUpdate(n, r, v) : n \in Names, r \in Rands, v \in Values}
        \cup {NameUpdate(n, v) : n \in Names, v \in Values}

CandidateTxsOf(v, id, scripts) ==
    {[hash |-> id, namecoin |-> TRUE, vin |-> ins,
      vout |-> <<TxOut(MinNameCoinAmount(0), s)>>] :
        ins \in {<< >>} \cup {<<o>> : o \in AvailableOutpoints(v)},
        s \in scripts}

CandidateTxs(v, id) == CandidateTxsOf(v, id, NameScripts)

(***************************************************************************)
(* UpdateCoins: spend the inputs (one CTxInUndo each), add the outputs.    *)
(***************************************************************************)
RECURSIVE SpendInputs(_, _, _, _)
SpendInputs(vin, v, txundo, i) ==
    IF i > Len(vin)
    THEN [view |-> v, txundo |-> txundo]
    ELSE SpendInputs(vin, SpendOutput(v, vin[i]),
                     Append(txundo, SpendUndo(v.coins[vin[i].hash], vin[i].n)),
                     i + 1)

UpdateCoins(tx, v, nHeight) ==
    LET sp == SpendInputs(tx.vin, v, << >>, 1) IN
    [view |-> [sp.view EXCEPT !.coins[tx.hash] =
                    [nHeight |-> nHeight, vout |-> tx.vout]],
     txundo |-> sp.txundo]

(***************************************************************************)
(* ConnectBlock, one transaction at a time, then the expirations.          *)
(***************************************************************************)
NewOutpoints(v) ==
    {o \in AvailableOutpoints(v) : v.coins[o.hash].vout[o.n].scriptPubKey.op = "NEW"}

\* At most one unspent NAME_NEW commitment per name is kept outstanding.
MaxNew == Cardinality(Names)

ConnectTx(tx) ==
    /\ tip < MaxHeight
    /\ (\E i \in 1 .. Len(tx.vout) : tx.vout[i].scriptPubKey.op = "NEW")
          => Cardinality(NewOutpoints(view)) < MaxNew
    /\ Len(cur.vtx) < MaxBlockTx
    /\ \A i \in 1 .. Len(tx.vin) : IsAvailable(view.coins[tx.vin[i].hash], tx.vin[i].n)
    /\ CheckNameTransaction(tx, tip + 1, view, FALSE)
    /\ LET uc == UpdateCoins(tx, view, tip + 1)
           ap == ApplyNameTransaction(tx, tip + 1, uc.view, cur.vnameundo)
       IN /\ view' = ap.view
          /\ cur' = [vtx |-> Append(cur.vtx, tx),
                     vtxundo |-> Append(cur.vtxundo, uc.txundo),
                     vnameundo |-> ap.vnameundo]
    /\ UNCHANGED <<tip, base, chain>>
    /\ UNCHANGED <<checkVars, poolVars>>

ConnectTxStep ==
    /\ FreeTxIds # {}
    /\ \E tx \in CandidateTxs(view, MinOf(FreeTxIds)) : ConnectTx(tx)

\* The end of ConnectBlock and ConnectTip: ExpireNames for the block's
\* height, the block and its undo data are stored, the block becomes the
\* tip, and the memory pool drops the block's transactions, their conflicts
\* and the updates of the expired names.
ConnectBlockEnd ==
    /\ tip < MaxHeight
    /\ LET ex == ExpireNames(tip + 1, view, << >>) IN
       /\ ex.ok = "ok"
       /\ view' = ex.view
       /\ base' = ex.view
       /\ SetPool(removeExpireConflicts(removeForBlock(pool, cur.vtx, 1), ex.names))
       /\ chain' = Append(chain, [vtx |-> cur.vtx, vtxundo |-> cur.vtxundo,
                                  vnameundo |-> cur.vnameundo,
                                  vexpired |-> ex.vexpired,
                                  expired |-> ex.names])
    /\ tip' = tip + 1
    /\ cur' = EmptyBlock
    /\ UNCHANGED checkVars

(***************************************************************************)
(* DisconnectBlock: the inverse steps in reverse order.                    *)
(***************************************************************************)
RECURSIVE RestoreInputs(_, _, _, _)
RestoreInputs(vin, txundo, v, j) ==
    IF j = 0 THEN v
    ELSE RestoreInputs(vin, txundo, ApplyTxInUndo(txundo[j], v, vin[j]), j - 1)

RECURSIVE UndoTransactions(_, _, _, _)
UndoTransactions(vtx, vtxundo, v, i) ==
    IF i = 0 THEN v
    ELSE UndoTransactions(vtx, vtxundo,
             RestoreInputs(vtx[i].vin, vtxundo[i],
                           [v EXCEPT !.coins[vtx[i].hash] = NoCoins],
                           Len(vtx[i].vin)),
             i - 1)

\* An undo of the name operations that walks the undo list front to back.
RECURSIVE UndoNameOperationsForward(_, _, _)
UndoNameOperationsForward(vnameundo, v, k) ==
    IF vnameundo = << >> THEN v
    ELSE UndoNameOperationsForward(Tail(vnameundo),
                                   NameTxUndoApply(Head(vnameundo), v), k)

RECURSIVE UndoNameOperations(_, _, _)
UndoNameOperations(vnameundo, v, k) ==
    IF k = 0 THEN v
    ELSE UndoNameOperations(vnameundo, NameTxUndoApply(vnameundo[k], v), k - 1)

DisconnectedView(b, nHeight, v) ==
    LET un == UnexpireNames(nHeight, b.vexpired, v)
        v2 == UndoTransactions(b.vtx, b.vtxundo, un.view, Len(b.vtx))
    IN [ok |-> un.ok,
        view |-> UndoNameOperations(b.vnameundo, v2, Len(b.vnameundo)),
        names |-> un.names]

DisconnectBlock ==
    /\ Committed
    /\ tip > 0
    /\ LET d == DisconnectedView(chain[tip], tip, view) IN
       /\ d.ok
       /\ view' = d.view
       /\ base' = d.view
       /\ SetPool(removeUnexpireConflicts(
                      PoolRemove(pool, PoolSpenders(pool,
                                     {t.hash : t \in SeqRange(chain[tip].vtx)})),
                      d.names))
    /\ chain' = SubSeq(chain, 1, tip - 1)
    /\ tip' = tip - 1
    /\ UNCHANGED <<cur, checkVars>>

Next ==
    \/ ConnectTxStep
    \/ ConnectBlockEnd
    \/ DisconnectBlock

Spec == Init /\ [][Next]_vars

(***************************************************************************)
(* Claims about the chain state.                                           *)
(***************************************************************************)

\* C1: after any sequence of valid block connects and disconnects,
\* ValidateNameDB returns true at the resulting tip (the modelled heights
\* all lie outside 139000..180000).
C1_ValidateNameDBHolds == Committed => ValidateNameDB(view, tip)

\* The unspent name-update outputs of the UTXO set that name n.
UpdateOutpointsOf(n) == {o \in UpdateOutpoints(view) : OutpointName(view, o) = n}

\* The output a name's record points to is an unspent name-update output
\* naming that name.
RecordCoinUnspent(n) == view.names[n].prevout \in UpdateOutpointsOf(n)

NameState(v) == [names |-> v.names, history |-> v.history, expire |-> v.expire]

\* C3: applying a block's transactions with ApplyNameTransaction and then
\* applying the undo records it pushed, in reverse order, gives back for
\* every name the record, the history and the expire-index entries the view
\* had before the block.
C3_ApplyThenUndoRestores ==
    NameState(UndoNameOperations(cur.vnameundo, view, Len(cur.vnameundo)))
        = NameState(base)

\* A block of two name operations on one name has been applied: the first
\* undo record restores older data, and the name state differs from the one
\* before the block.
C3_Witness ==
    /\ Len(cur.vnameundo) = 2
    /\ cur.vnameundo[1].name = cur.vnameundo[2].name
    /\ ~cur.vnameundo[1].isNew
    /\ ~cur.vnameundo[2].isNew
    /\ NameState(view) # NameState(base)

\* The expire-index entries that mention name n.
ExpireEntriesOf(n) == {e \in view.expire : e[2] = n}

\* C10: after every committed block, for every name with a current record
\* the expire index holds (record height, name) and no other entry that
\* mentions the name.
C10_ExpireIndexMatchesRecord ==
    Committed =>
        \A n \in Names :
            HaveName(view, n) => ExpireEntriesOf(n) = {<<view.names[n].nHeight, n>>}

\* A registered name has been updated at a later height, so its index entry
\* has moved.
C10_Witness ==
    /\ Committed
    /\ \E n \in Names :
          /\ HaveName(view, n)
          /\ view.history[n] # << >>
          /\ view.history[n][1].nHeight < view.names[n].nHeight

\* An UPDATE of name n that spends the coin of its current record.
UpdateOfRecord(n, v) ==
    [hash |-> MaxTx, namecoin |-> TRUE, vin |-> <<view.names[n].prevout>>,
     vout |-> <<TxOut(MinNameCoinAmount(tip + 1), NameUpdate(n, v))>>]

\* The names ExpireNames expired when the tip block was connected.
ExpiredAtTip == IF Committed /\ tip > 0 THEN chain[tip].expired ELSE {}

PrevScriptsA ==
    {NoScript, NameNew(Hash160(1, 1)), NameFirstUpdate(1, 1, 1), NameUpdate(1, 1)}
PrevScriptsB == {NoScript, NameNew(Hash160(1, 1))}
PrevHeightsA == {1, 2, 12, MEMPOOL_HEIGHT}
RecordHeights == {11, 12}
CallHeights == {13, 14}

FirstOutputs ==
    {TxOut(1, s) :
        s \in {NoScript, NameNew(Hash160(1, 1))}
            \cup {NameNew(h) : h \in ShortHashes}
            \cup {NameFirstUpdate(n, 1, 1) : n \in Names \cup LongNames}
            \cup {NameFirstUpdate(1, r, 1) : r \in Rands \cup LongRands}
            \cup {NameFirstUpdate(1, 1, v) : v \in LongValues}
            \cup {NameUpdate(n, 1) : n \in Names}
            \cup {NameUpdate(1, v) : v \in LongValues}}
        \cup {TxOut(0, s) : s \in {NameFirstUpdate(1, 1, 1), NameUpdate(1, 1)}}
SecondOutputs == {TxOut(1, s) : s \in {NoScript, NameUpdate(1, 1)}}

CallVouts ==
    {<< >>} \cup {<<a>> : a \in FirstOutputs}
        \cup {<<a, b>> : a \in FirstOutputs, b \in SecondOutputs}
CallVins == {<< >>, <<OutPoint(1, 1)>>, <<OutPoint(1, 1), OutPoint(2, 1)>>}

\* The listed historic transactions.  BuggyTx spends two outputs and updates
\* a name to a value longer than MAX_VALUE_LENGTH; BuggyPlainTx is not
\* marked as Namecoin transaction and has a name output without any amount.
\* A transaction's hash is a function of its content.
BuggyTx ==
    [namecoin |-> TRUE, vin |-> <<OutPoint(1, 1), OutPoint(2, 1)>>,
     vout |-> <<TxOut(1, NameUpdate(1, 3))>>]
BuggyPlainTx ==
    [namecoin |-> FALSE, vin |-> <<OutPoint(1, 1)>>,
     vout |-> <<TxOut(0, NameUpdate(1, 1))>>]
\* BuggyDoubleTx updates one name twice; BuggyIgnoredTx updates two names;
\* BuggyIgnoredPlainTx is not marked as Namecoin transaction and has a
\* currency output before its name output.
BuggyDoubleTx ==
    [namecoin |-> TRUE, vin |-> <<OutPoint(1, 1)>>,
     vout |-> <<TxOut(1, NameUpdate(1, 1)), TxOut(1, NameUpdate(1, 1))>>]
BuggyIgnoredTx ==
    [namecoin |-> TRUE, vin |-> <<OutPoint(1, 1)>>,
     vout |-> <<TxOut(1, NameUpdate(2, 1)), TxOut(1, NameUpdate(1, 1))>>]
BuggyIgnoredPlainTx ==
    [namecoin |-> FALSE, vin |-> <<OutPoint(1, 1)>>,
     vout |-> <<TxOut(1, NoScript), TxOut(1, NameUpdate(1, 1))>>]
TxWithHash(content) ==
    [hash |-> IF content = BuggyTx THEN 0
              ELSE IF content = BuggyPlainTx THEN 9
              ELSE IF content = BuggyDoubleTx THEN 19
              ELSE IF content = BuggyIgnoredTx THEN 29
              ELSE IF content = BuggyIgnoredPlainTx THEN 39 ELSE 3,
     namecoin |-> content.namecoin, vin |-> content.vin, vout |-> content.vout]

CallView(scriptA, heightA, haveA, scriptB, record) ==
    [EmptyView EXCEPT
        !.coins[1] = IF haveA
                     THEN [nHeight |-> heightA, vout |-> <<TxOut(1, scriptA)>>]
                     ELSE NoCoins,
        !.coins[2] = [nHeight |-> 1, vout |-> <<TxOut(1, scriptB)>>],
        !.names[1] = record,
        !.expire = IF record = NoData THEN {} ELSE {<<record.nHeight, 1>>}]

\* Target height and mempool flag: block heights with either flag value,
\* and MEMPOOL_HEIGHT for the admission to the pool.
CallTargets ==
    {<<h, f>> : h \in CallHeights, f \in BOOLEAN} \cup {<<MEMPOOL_HEIGHT, TRUE>>}

CallRecords ==
    {NoData} \cup {[value |-> 1, nHeight |-> r, prevout |-> OutPoint(4, 1),
                    addr |-> Addr] : r \in RecordHeights}

Calls ==
    {[made |-> TRUE,
      tx |-> TxWithHash([namecoin |-> nc, vin |-> vin, vout |-> vout]),
      nHeight |-> hf[1], fMempool |-> hf[2],
      view |-> CallView(sa, ha, have, sb, rec)] :
        nc \in BOOLEAN, vin \in CallVins, vout \in CallVouts,
        hf \in CallTargets,
        sa \in PrevScriptsA, ha \in PrevHeightsA, have \in {TRUE},
        sb \in PrevScriptsB, rec \in CallRecords}
    \cup
    {[made |-> TRUE,
      tx |-> TxWithHash([namecoin |-> nc, vin |-> vin, vout |-> vout]),
      nHeight |-> hf[1], fMempool |-> hf[2],
      view |-> CallView(NoScript, 1, FALSE, NoScript, NoData)] :
        nc \in BOOLEAN, vin \in CallVins,
        vout \in {<< >>, <<TxOut(1, NameUpdate(1, 1))>>, BuggyTx.vout,
                  BuggyPlainTx.vout},
        hf \in CallTargets}

InitCheck ==
    /\ InitChain
    /\ call \in Calls
    /\ result = "none"
    /\ InitEmptyPool

DoCheck ==
    /\ call # NoCall
    /\ result = "none"
    /\ result' = CheckNameTransactionResult(call.tx, call.nHeight, call.view,
                                            call.fMempool)
    /\ UNCHANGED <<chainVars, call, poolVars>>

NextCheck == DoCheck

SpecCheck == InitCheck /\ [][NextCheck]_vars

(***************************************************************************)
(* Claims about CheckNameTransaction, checked on the direct calls.         *)
(***************************************************************************)
CallNameInputs ==
    {i \in 1 .. Len(call.tx.vin) :
        /\ HaveCoins(call.view, call.tx.vin[i].hash)
        /\ isNameOp(GetCoins(call.view, call.tx.vin[i].hash)
                        .vout[call.tx.vin[i].n].scriptPubKey)}
CallNameOutputs ==
    {i \in 1 .. Len(call.tx.vout) : isNameOp(call.tx.vout[i].scriptPubKey)}

\* The one name input and the one name output of the called transaction.
CallCoinsIn == GetCoins(call.view, call.tx.vin[CHOOSE i \in CallNameInputs : TRUE].hash)
CallOpIn == CallCoinsIn.vout[1].scriptPubKey
CallOut == call.tx.vout[CHOOSE i \in CallNameOutputs : TRUE]

\* The called transaction is a FIRSTUPDATE (name, rand, value) of a Namecoin
\* transaction, its sizes and amount within the limits, that spends a
\* confirmed NAME_NEW output committing to Hash160 (rand || name), and the
\* call is a consensus validation.
C4_Case ==
    /\ call # NoCall
    /\ ~call.fMempool
    /\ call.tx.namecoin
    /\ \A i \in 1 .. Len(call.tx.vin) : HaveCoins(call.view, call.tx.vin[i].hash)
    /\ Cardinality(CallNameInputs) = 1
    /\ Cardinality(CallNameOutputs) = 1
    /\ CallOut.scriptPubKey.op = "FIRSTUPDATE"
    /\ NameSize(CallOut.scriptPubKey.name) <= MAX_NAME_LENGTH
    /\ RandSize(CallOut.scriptPubKey.rand) <= 20
    /\ ValueSize(CallOut.scriptPubKey.value) <= MAX_VALUE_LENGTH
    /\ CallOut.nValue >= MinNameCoinAmount(call.nHeight)
    /\ CallOpIn.op = "NEW"
    /\ CallOpIn.hash = Hash160(CallOut.scriptPubKey.rand, CallOut.scriptPubKey.name)
    /\ CallCoinsIn.nHeight # MEMPOOL_HEIGHT

C6_RejectsMultipleNameIO ==
    (call # NoCall /\ result # "none"
        /\ (Cardinality(CallNameInputs) >= 2 \/ Cardinality(CallNameOutputs) >= 2))
    => result # "ok"

\* C6, amended: CheckNameTransaction rejects every transaction with two or
\* more name inputs or two or more name outputs, at every height, view and
\* flag value, unless the transaction's hash and the height are listed as a
\* historic bug.
C6_RejectsMultipleNameIOUnlessListed ==
    (call # NoCall /\ result # "none"
        /\ ~IsHistoricBug(call.tx.hash, call.nHeight)
        /\ (Cardinality(CallNameInputs) >= 2 \/ Cardinality(CallNameOutputs) >= 2))
    => result # "ok"

\* A transaction with two name inputs and two name outputs was rejected at
\* the scan of its inputs.
C6_Witness ==
    /\ call # NoCall
    /\ Cardinality(CallNameInputs) = 2
    /\ Cardinality(CallNameOutputs) = 2
    /\ result = "MultipleNameInputs"

(***************************************************************************)
(* The name maps of the memory pool on their own: transactions are added   *)
(* when checkTx lets them pass, and entries are removed.                   *)
(***************************************************************************)
\* Hashes the memory pool can give a new transaction: not in the pool, not
\* in the chain, and not remembered by mapNameNews.
FreePoolIds ==
    PoolTxIds \ ({e.hash : e \in mapTx} \cup ChainTxIds
                    \cup {r[2] : r \in mapNameNews})

NamePoolTxs(id) ==
    {[hash |-> id, namecoin |-> nc, vin |-> << >>,
      vout |-> <<TxOut(MinNameCoinAmount(0), s)>>] :
        nc \in BOOLEAN, s \in NameScripts}

NamePoolAdd ==
    /\ FreePoolIds # {}
    /\ \E tx \in NamePoolTxs(MinOf(FreePoolIds)) :
          /\ checkTx(pool, tx)
          /\ SetPool(PoolAddUnchecked(pool, tx))
    /\ UNCHANGED <<chainVars, checkVars>>

NamePoolRemove ==
    /\ \E e \in mapTx : SetPool(PoolRemove(pool, {e.hash}))
    /\ UNCHANGED <<chainVars, checkVars>>

NextNamePool ==
    \/ NamePoolAdd
    \/ NamePoolRemove

SpecNamePool == Init /\ [][NextNamePool]_vars

(***************************************************************************)
(* The chain with the memory pool.  The chain starts with two NAME_NEW     *)
(* outputs confirmed in block 1 and the tip at MIN_FIRSTUPDATE_DEPTH, and  *)
(* is never reorganised below that height.  Pool transactions spend a      *)
(* confirmed output (NAME_NEW in the pool is the subject of SpecNamePool);  *)
(* a disconnected block's transactions are not taken back into the pool.   *)
(***************************************************************************)
PoolFloor == MIN_FIRSTUPDATE_DEPTH

NewTx(id, h) ==
    [hash |-> id, namecoin |-> TRUE, vin |-> << >>,
     vout |-> <<TxOut(MinNameCoinAmount(1), NameNew(h))>>]

FloorView(a, b) ==
    [EmptyView EXCEPT
        !.coins[1] = [nHeight |-> 1, vout |-> NewTx(1, a).vout],
        !.coins[2] = [nHeight |-> 1, vout |-> NewTx(2, b).vout]]

FloorChain(a, b) ==
    [h \in 1 .. PoolFloor |->
        IF h = 1
        THEN [vtx |-> <<NewTx(1, a), NewTx(2, b)>>, vtxundo |-> << << >>, << >> >>,
              vnameundo |-> << >>, vexpired |-> << >>, expired |-> {}]
        ELSE [vtx |-> << >>, vtxundo |-> << >>, vnameundo |-> << >>,
              vexpired |-> << >>, expired |-> {}]]

InitPool ==
    /\ tip = PoolFloor
    /\ \E a \in {Hash160(1, 1)}, b \in Hashes :
          /\ view = FloorView(a, b)
          /\ base = FloorView(a, b)
          /\ chain = FloorChain(a, b)
    /\ cur = EmptyBlock
    /\ call = NoCall
    /\ result = "none"
    /\ InitEmptyPool

\* The name operations offered to the memory pool.
PoolScripts ==
    {NameFirstUpdate(n, r, 1) : n \in Names, r \in CommitRands}
        \cup {NameUpdate(n, 1) : n \in Names}

\* AcceptToMemoryPool: no pool entry spends one of the inputs, checkNameOps
\* passes, the inputs are unspent and CheckNameTransaction passes for the
\* next block's height with the mempool flag.
AcceptToMemoryPool ==
    /\ Committed
    /\ FreePoolIds # {}
    /\ \E tx \in {t \in CandidateTxsOf(view, MinOf(FreePoolIds), PoolScripts) :
                      t.vin # << >>} :
          /\ \A e \in mapTx : SeqRange(e.tx.vin) \cap SeqRange(tx.vin) = {}
          /\ checkTx(pool, tx)
          /\ CheckNameTransaction(tx, tip + 1, view, TRUE)
          /\ SetPool(PoolAddUnchecked(pool, tx))
    /\ UNCHANGED <<chainVars, checkVars>>

\* A block takes a transaction of the memory pool.
ConnectPoolTx == \E e \in mapTx : ConnectTx(e.tx)

PoolDisconnect ==
    /\ tip > PoolFloor
    /\ DisconnectBlock

NextPool ==
    \/ AcceptToMemoryPool
    \/ ConnectTxStep
    \/ ConnectPoolTx
    \/ ConnectBlockEnd
    \/ PoolDisconnect

SpecPool == InitPool /\ [][NextPool]_vars

(***************************************************************************)
(* Claims about the memory pool.                                           *)
(***************************************************************************)
\* The name transactions other than the one of entry e that perform e's
\* operation (FIRSTUPDATE or UPDATE) on e's name.
SameNameTxs(e) ==
    {[hash |-> h, namecoin |-> TRUE, vin |-> << >>,
      vout |-> <<TxOut(MinNameCoinAmount(0), s)>>] :
        h \in TxIds \ {e.hash},
        s \in {x \in NameScripts : x.op = e.nameOp.op /\ x.name = e.nameOp.name}}

\* C7: once a transaction that registers (or updates) a name has been added
\* to the pool's index with addUnchecked, checkTx returns false for every
\* other transaction that registers (or updates) the same name, in both
\* versions of checkTx.
C7_SecondSameNameTxRefused ==
    \A e \in mapTx :
        (isNameRegistration(e) \/ isNameUpdate(e)) =>
            \A t2 \in SameNameTxs(e) :
                ~checkTx(pool, t2) /\ ~checkTxLegacy(pool, t2)

\* The pool holds a registration and an update, added by addUnchecked.
C7_Witness ==
    /\ \E e \in mapTx : isNameRegistration(e) /\ SameNameTxs(e) # {}
    /\ \E e \in mapTx : isNameUpdate(e) /\ SameNameTxs(e) # {}

\* C8: when addUnchecked is only called for transactions for which checkTx
\* returned true in the same state, no two pool entries register the same
\* name, no two update the same name, and no assertion of addUnchecked fails.
C8_NoDuplicateNameOps ==
    /\ ~poolAbort
    /\ \A e, f \in mapTx :
          (/\ e.nameOp.op = f.nameOp.op
           /\ isNameRegistration(e) \/ isNameUpdate(e)
           /\ e.nameOp.name = f.nameOp.name) => e = f

\* Two registrations of different names are in the pool.
C8_Witness ==
    \E e, f \in mapTx :
        /\ isNameRegistration(e) /\ isNameRegistration(f)
        /\ e.nameOp.name # f.nameOp.name

\* C9: after every block connect or disconnect with its memory pool
\* evictions, at the new tip height h, every pending registration targets a
\* name that is absent or expired at h + 1 and every pending update targets
\* a name that exists and is not expired at h + 1: the assertions of
\* CNameMemPool::check hold.
C9_CheckHoldsAfterBlock == [][tip' # tip => check(pool', view', tip')]_vars

(***************************************************************************)
(* A checked transaction applied: CheckNameTransaction on a direct call    *)
(* and, when it succeeds at a block height, ApplyNameTransaction on the    *)
(* call's view.  The name database is keyed by the name's bytes and holds  *)
(* a name of any length.                                                   *)
(***************************************************************************)
AllNames == Names \cup LongNames

WideView(v) ==
    [v EXCEPT
        !.coins = [t \in TxIds \cup ListedHashes |->
                      IF t \in TxIds THEN v.coins[t] ELSE NoCoins],
        !.names = [n \in AllNames |-> IF n \in Names THEN v.names[n] ELSE NoData],
        !.history = [n \in AllNames |-> IF n \in Names THEN v.history[n]
                                        ELSE << >>]]

Applied == view # EmptyView

\* The inputs of the called transaction are distinct unspent outputs.
CallInputsAvailable ==
    /\ \A i \in 1 .. Len(call.tx.vin) :
          IsAvailable(call.view.coins[call.tx.vin[i].hash], call.tx.vin[i].n)
    /\ \A i, j \in 1 .. Len(call.tx.vin) : call.tx.vin[i] = call.tx.vin[j] => i = j

\* The view the transaction is applied to: its inputs spent, its outputs
\* added (UpdateCoins).
CallCoinsUpdated == UpdateCoins(call.tx, WideView(call.view), call.nHeight)

ApplyChecked ==
    /\ call # NoCall
    /\ result = "ok"
    /\ call.nHeight # MEMPOOL_HEIGHT
    /\ CallInputsAvailable
    /\ ~Applied
    /\ LET ap == ApplyNameTransaction(call.tx, call.nHeight,
                                      CallCoinsUpdated.view, << >>)
       IN /\ view' = ap.view
          /\ cur' = [vtx |-> <<call.tx>>,
                     vtxundo |-> <<CallCoinsUpdated.txundo>>,
                     vnameundo |-> ap.vnameundo]
    /\ UNCHANGED <<tip, base, chain, checkVars, poolVars>>

NextApply == DoCheck \/ ApplyChecked

SpecApply == InitCheck /\ [][NextApply]_vars

\* The names with a record in the view.
RecordNames(v) == {n \in DOMAIN v.names : v.names[n] # NoData}

\* C11 as stated: after the transactions accepted by CheckNameTransaction
\* have been applied, every record of the name table has a name of at most
\* 255 bytes and a value of at most 1023 bytes.
C11_RecordsWithinLimits ==
    Applied =>
        \A n \in RecordNames(view) :
            /\ NameSize(n) <= MAX_NAME_LENGTH
            /\ ValueSize(view.names[n].value) <= MAX_VALUE_LENGTH

\* C11, amended: after the accepted transactions have been applied, every
\* record of the name table has a name of at most 255 bytes and a value of
\* at most 1023 bytes, unless the transaction that wrote the record is
\* listed with its height as a historic bug.
C11_RecordsWithinLimitsUnlessListed ==
    Applied =>
        \A n \in RecordNames(view) :
            ~IsHistoricBug(view.names[n].prevout.hash, view.names[n].nHeight) =>
                /\ NameSize(n) <= MAX_NAME_LENGTH
                /\ ValueSize(view.names[n].value) <= MAX_VALUE_LENGTH

\* An accepted FIRSTUPDATE that is not listed has written its record.
C11_Witness ==
    /\ Applied
    /\ ~IsHistoricBug(call.tx.hash, call.nHeight)
    /\ \E n \in RecordNames(view) :
           /\ view.names[n].prevout.hash = call.tx.hash
           /\ view.names[n].nHeight = call.nHeight
           /\ CallOut.scriptPubKey.op = "FIRSTUPDATE"

(***************************************************************************)
(* Claims about expiration, checked on the chain.                          *)
(***************************************************************************)

\* C12 as stated: after the block at height h in which a name expires has
\* been connected, GetName reports the name absent and the expire index has
\* no entry for the name.
C12_ExpiredNameAbsent ==
    \A n \in ExpiredAtTip :
        /\ ~HaveName(view, n)
        /\ ExpireEntriesOf(n) = {}

\* C12, amended: after the block at height h in which a name expires has
\* been connected, GetName still returns the name's record, which is expired
\* at h, the expire index still holds the entry (record height, name), and
\* the record's name coin is spent.
C12_ExpiredNameKeepsRecord ==
    \A n \in ExpiredAtTip :
        /\ HaveName(view, n)
        /\ DataIsExpired(GetName(view, n), tip)
        /\ ExpireEntriesOf(n) = {<<GetName(view, n).nHeight, n>>}
        /\ ~IsAvailable(view.coins[GetName(view, n).prevout.hash],
                        GetName(view, n).prevout.n)

\* The connect of a block has expired both names at once.
C12_Witness ==
    /\ Committed
    /\ tip > 0
    /\ ExpiredAtTip = Names

\* The expiration the connect of the next block would carry out on the
\* view, and its reversal with the undo data the expiration wrote.
NextExpire == ExpireNames(tip + 1, view, << >>)
NextUnexpire == UnexpireNames(tip + 1, NextExpire.vexpired, NextExpire.view)

\* C13: ExpireNames at height h followed by UnexpireNames at height h with
\* the same block undo succeeds, reports the same names, leaves every name
\* coin the expiration spent unspent again at its recorded outpoint, and
\* gives back the UTXO set, the records and the expire index of before.
C13_ExpireThenUnexpireRestores ==
    (tip < MaxHeight /\ NextExpire.ok = "ok") =>
        /\ NextUnexpire.ok
        /\ NextUnexpire.names = NextExpire.names
        /\ NextUnexpire.view = view
        /\ \A n \in NextExpire.names :
               IsAvailable(NextUnexpire.view.coins[view.names[n].prevout.hash],
                           view.names[n].prevout.n)

\* The expiration spends the coins of both names, and the view after it
\* differs from the one before.
C13_Witness ==
    /\ tip < MaxHeight
    /\ NextExpire.ok = "ok"
    /\ NextExpire.names = Names
    /\ Len(NextExpire.vexpired) = 2
    /\ NextExpire.view # view

(***************************************************************************)
(* Claims about the evictions of the memory pool, checked on the chain     *)
(* with its pool.                                                          *)
(***************************************************************************)

\* The pool entries that update, or register, one of the given names.
UpdatersOf(p, names) ==
    {e \in p.mapTx : isNameUpdate(e) /\ e.nameOp.name \in names}
RegistrantsOf(p, names) ==
    {e \in p.mapTx : isNameRegistration(e) /\ e.nameOp.name \in names}

\* C14: removeExpireConflicts, called on the pool with a set of names (the
\* names a block connect expired among them), removes every pool transaction
\* that updates one of the names without failing an assertion, and
\* afterwards updatesName is false for every name of the set.
C14_ExpireConflictsEvicted ==
    \A S \in SUBSET Names :
        LET q == removeExpireConflicts(pool, S) IN
        /\ q.abort = pool.abort
        /\ UpdatersOf(q, S) = {}
        /\ \A n \in S : ~updatesName(q, n)

\* The pool holds an update of a name that the connect of the next block
\* expires.
C14_Witness ==
    /\ tip < MaxHeight
    /\ NextExpire.ok = "ok"
    /\ \E n \in NextExpire.names :
          /\ updatesName(pool, n)
          /\ UpdatersOf(pool, {n}) # {}
          /\ removeExpireConflicts(pool, NextExpire.names).mapTx # mapTx

\* C15: removeUnexpireConflicts, called on the pool with a set of names (the
\* names a block disconnect un-expired among them), removes every pool
\* transaction that registers one of the names without failing an assertion,
\* and afterwards registersName is false for every name of the set.
C15_UnexpireConflictsEvicted ==
    \A S \in SUBSET Names :
        LET q == removeUnexpireConflicts(pool, S) IN
        /\ q.abort = pool.abort
        /\ RegistrantsOf(q, S) = {}
        /\ \A n \in S : ~registersName(q, n)

\* The pool holds a registration of a name that the tip block expired: the
\* disconnect of the tip un-expires the name.
C15_Witness ==
    /\ Committed
    /\ \E n \in ExpiredAtTip :
          /\ registersName(pool, n)
          /\ RegistrantsOf(pool, {n}) # {}
          /\ removeUnexpireConflicts(pool, ExpiredAtTip).mapTx # mapTx

\* Transactions a block may confirm, as removeConflicts sees them: flagged
\* as Namecoin transaction or not, with one output of every kind.
ConfirmedTxs ==
    {[hash |-> MaxTx, namecoin |-> nc, vin |-> << >>, vout |-> <<TxOut(1, s)>>] :
        nc \in BOOLEAN,
        s \in {NoScript, NameNew(Hash160(1, 1))}
                \cup {NameUpdate(n, 1) : n \in Names}
                \cup {NameFirstUpdate(n, 1, 1) : n \in Names}}

\* The names the transaction has a FIRSTUPDATE output for.
FirstUpdateNames(tx) ==
    {tx.vout[i].scriptPubKey.name :
        i \in {k \in 1 .. Len(tx.vout) : tx.vout[k].scriptPubKey.op = "FIRSTUPDATE"}}

\* C16: removeConflicts for a confirmed Namecoin transaction with a
\* FIRSTUPDATE output for a name removes the pool's registration of that
\* name, if there is one, and nothing else; for a transaction that is not a
\* Namecoin transaction or has no FIRSTUPDATE output it leaves the pool and
\* its name index as they are.
C16_ConfirmedRegistrationEvicts ==
    \A tx \in ConfirmedTxs :
        LET q == removeConflicts(pool, tx) IN
        IF tx.namecoin /\ FirstUpdateNames(tx) # {}
        THEN /\ q.abort = pool.abort
             /\ RegistrantsOf(q, FirstUpdateNames(tx)) = {}
             /\ \A n \in FirstUpdateNames(tx) : ~registersName(q, n)
             /\ q.mapTx = mapTx \ RegistrantsOf(pool, FirstUpdateNames(tx))
             /\ q.mapNameUpdates = mapNameUpdates
        ELSE q = pool

\* The block being connected holds a FIRSTUPDATE of a name for which the
\* pool holds the registration by another transaction.
C16_Witness ==
    \E i \in 1 .. Len(cur.vtx) :
        \E e \in RegistrantsOf(pool, FirstUpdateNames(cur.vtx[i])) :
            /\ cur.vtx[i].namecoin
            /\ e.hash # cur.vtx[i].hash
            /\ removeConflicts(pool, cur.vtx[i]).mapTx = mapTx \ {e}

(***************************************************************************)
(* Further claims about CheckNameTransaction, checked on the direct calls. *)
(***************************************************************************)

\* C17: for every transaction, target height (MEMPOOL_HEIGHT included), view
\* and flag value, CheckNameTransaction returns success or a failure: no
\* assertion in it or in isExpired fails.
C17_NoAssertionFails == result # "AssertFail"

\* The call has run, and every input of its transaction has coins in the
\* view.
CallDone == call # NoCall /\ result # "none"
CallInputsFound ==
    \A i \in 1 .. Len(call.tx.vin) : HaveCoins(call.view, call.tx.vin[i].hash)
CallListed == IsHistoricBug(call.tx.hash, call.nHeight)

\* C18: if (transaction hash, height) is listed as a historic bug,
\* CheckNameTransaction returns success whatever the transaction's name
\* inputs and outputs, its amounts, the view and the flags are.
C18_ListedAlwaysAccepted ==
    (CallDone /\ CallListed) => result = "ok"

\* The listed transaction that is no Namecoin transaction and has a name
\* output without amount was accepted for the pool although the view lacks
\* the coins of its input.
C18_Witness ==
    /\ CallDone
    /\ CallListed
    /\ result = "ok"
    /\ call.fMempool
    /\ ~call.tx.namecoin
    /\ ~CallInputsFound
    /\ CallNameOutputs # {}
    /\ CheckNameOperation(call.tx, call.nHeight, call.view, call.fMempool) = "FetchFail"

\* C19 as stated: a transaction not flagged as name transaction is accepted
\* if and only if it has no name input and no name output; a flagged one is
\* rejected whenever it has no name output.
C19_FlagMatchesNameIO ==
    CallDone =>
        /\ ~call.tx.namecoin =>
              (result = "ok" <=> (CallNameInputs = {} /\ CallNameOutputs = {}))
        /\ (call.tx.namecoin /\ CallNameOutputs = {}) => result # "ok"

\* C19, amended: unless (transaction hash, height) is listed as a historic
\* bug, a transaction not flagged as name transaction whose inputs all have
\* coins in the view is accepted if and only if it has no name input and no
\* name output, one with an input without coins is rejected, and a flagged
\* transaction is rejected whenever it has no name output.
C19_FlagMatchesNameIOUnlessListed ==
    (CallDone /\ ~CallListed) =>
        /\ (~call.tx.namecoin /\ CallInputsFound) =>
              (result = "ok" <=> (CallNameInputs = {} /\ CallNameOutputs = {}))
        /\ (~call.tx.namecoin /\ ~CallInputsFound) => result = "FetchFail"
        /\ (call.tx.namecoin /\ CallNameOutputs = {}) => result # "ok"

\* A transaction that is not flagged and spends a name output, without a
\* name output of its own, was rejected.
C19_Witness ==
    /\ CallDone
    /\ ~CallListed
    /\ ~call.tx.namecoin
    /\ CallInputsFound
    /\ Cardinality(CallNameInputs) = 1
    /\ CallNameOutputs = {}
    /\ result = "NonNameTxHasNameIO"

CallNameOp ==
    /\ CallDone
    /\ ~CallListed
    /\ call.tx.namecoin
    /\ CallInputsFound
    /\ Cardinality(CallNameInputs) = 1
    /\ Cardinality(CallNameOutputs) = 1
    /\ CallOut.nValue >= MinNameCoinAmount(call.nHeight)

\* It is a FIRSTUPDATE within the length limits that spends a NAME_NEW
\* output.
CallFirstUpdate ==
    /\ CallNameOp
    /\ CallOut.scriptPubKey.op = "FIRSTUPDATE"
    /\ NameSize(CallOut.scriptPubKey.name) <= MAX_NAME_LENGTH
    /\ ValueSize(CallOut.scriptPubKey.value) <= MAX_VALUE_LENGTH
    /\ CallOpIn.op = "NEW"

CallUpdate ==
    /\ CallDone
    /\ ~CallListed
    /\ call.tx.namecoin
    /\ CallInputsFound
    /\ Cardinality(CallNameInputs) <= 1
    /\ Cardinality(CallNameOutputs) = 1
    /\ CallOut.scriptPubKey.op = "UPDATE"
    /\ NameSize(CallOut.scriptPubKey.name) <= MAX_NAME_LENGTH
    /\ ValueSize(CallOut.scriptPubKey.value) <= MAX_VALUE_LENGTH
    /\ CallOut.nValue >= MinNameCoinAmount(call.nHeight)

\* The name input is a NAME_FIRSTUPDATE or NAME_UPDATE output of the same
\* name as the output.
CallUpdatesOwnName ==
    /\ Cardinality(CallNameInputs) = 1
    /\ CallOpIn.op \in {"FIRSTUPDATE", "UPDATE"}
    /\ CallOpIn.name = CallOut.scriptPubKey.name

\* The name input is unconfirmed, or its confirmation height plus the
\* expiration depth at the target height exceeds the target height.
CallInputUnexpired ==
    \/ CallCoinsIn.nHeight = MEMPOOL_HEIGHT
    \/ (/\ call.nHeight # MEMPOOL_HEIGHT
        /\ CallCoinsIn.nHeight + NameExpirationDepth(call.nHeight) > call.nHeight)

MapOwners(p) == {r[2] : r \in p.mapNameRegs \cup p.mapNameUpdates \cup p.mapNameNews}

\* The transaction of a removed entry, sent again under another hash.
SameOperationTxs(e) == {[e.tx EXCEPT !.hash = id] : id \in PoolTxIds \ {e.hash}}

\* C24: after CNameMemPool::remove (entry) no map of the name index (pending
\* registrations, pending updates, pending NAME_NEW hashes) holds an entry
\* owned by the removed transaction, and a distinct transaction with the same
\* name operation passes checkTx.
C24_RemoveClearsOwnedEntries ==
    [][\A e \in mapTx \ mapTx' :
          /\ e.hash \notin MapOwners(pool')
          /\ \A t2 \in SameOperationTxs(e) : checkTx(pool', t2)]_vars

\* The part of C24 that holds: a removed registration or update leaves no
\* entry behind and the same operation passes checkTx again.
RemoveClearsRegsAndUpdates ==
    [][\A e \in mapTx \ mapTx' :
          ~isNameNew(e) =>
              /\ e.hash \notin MapOwners(pool')
              /\ \A t2 \in SameOperationTxs(e) : checkTx(pool', t2)]_vars

(***************************************************************************)
(* The order of the steps of a block connect and of its disconnect.        *)
(***************************************************************************)
\* The names of the name-update outputs of a block's transactions, in
\* transaction order and within a transaction in output-index order.
RECURSIVE UpdateNamesOfOutputs(_, _)
UpdateNamesOfOutputs(vout, i) ==
    IF i > Len(vout) THEN << >>
    ELSE IF isNameOp(vout[i].scriptPubKey) /\ isAnyUpdate(vout[i].scriptPubKey)
    THEN <<vout[i].scriptPubKey.name>> \o UpdateNamesOfOutputs(vout, i + 1)
    ELSE UpdateNamesOfOutputs(vout, i + 1)

RECURSIVE UpdateNamesOfBlock(_, _)
UpdateNamesOfBlock(vtx, k) ==
    IF k > Len(vtx) THEN << >>
    ELSE (IF vtx[k].namecoin THEN UpdateNamesOfOutputs(vtx[k].vout, 1) ELSE << >>)
            \o UpdateNamesOfBlock(vtx, k + 1)

NameStealingFrom == 139000
NameStealingTo == 180000

\* CheckNameDB as it was before the name-stealing heights were tolerated.
CheckNameDBStrict(disconnect, option, nHeight, v) ==
    IF option = -1 THEN "Disabled"
    ELSE IF ~(option >= 0) THEN "AssertFail"
    ELSE IF option # 0 /\ (disconnect \/ nHeight % option # 0) THEN "Skipped"
    ELSE IF ValidateNameDB(v, nHeight) THEN "Consistent"
    ELSE "AssertFail"

CheckNameDB(disconnect, option, nHeight, v) ==
    IF option = -1 THEN "Disabled"
    ELSE IF ~(option >= 0) THEN "AssertFail"
    ELSE IF option # 0 /\ (disconnect \/ nHeight % option # 0) THEN "Skipped"
    ELSE IF ValidateNameDB(v, nHeight) THEN "Consistent"
    ELSE IF nHeight >= NameStealingFrom /\ nHeight <= NameStealingTo
    THEN "Tolerated"
    ELSE "AssertFail"

\* Values of -checknamedb and tip heights around the tolerated range.
NameDBOptions == {-2, -1, 0, 1, 2, 1000}
NameDBHeights == {14, 138999, 139000, 139001, 179999, 180000, 180001}

\* Databases at tip height h: empty; a live record of d/postmortem whose
\* name coin is unspent; the same record with its coin gone from the UTXO
\* set.
NameDBRecord(h) ==
    [value |-> 1, nHeight |-> h - 1, prevout |-> OutPoint(1, 1), addr |-> Addr]
NameDBView(h, haveCoin) ==
    [EmptyView EXCEPT
        !.coins[1] = IF haveCoin
                     THEN [nHeight |-> h - 1,
                           vout |-> <<TxOut(1, NameFirstUpdate(2, 1, 1))>>]
                     ELSE NoCoins,
        !.names[2] = NameDBRecord(h),
        !.expire = {<<h - 1, 2>>}]
NameDBViews(h) == {EmptyView, NameDBView(h, TRUE), NameDBView(h, FALSE)}

NameDBCalls ==
    UNION {{[made |-> TRUE, disconnect |-> d, option |-> o, nHeight |-> h,
             view |-> v] :
                d \in BOOLEAN, o \in NameDBOptions, v \in NameDBViews(h)} :
           h \in NameDBHeights}

InitNameDB ==
    /\ InitChain
    /\ call \in NameDBCalls
    /\ result = "none"
    /\ InitEmptyPool

DoCheckNameDB ==
    /\ call # NoCall
    /\ result = "none"
    /\ result' = CheckNameDB(call.disconnect, call.option, call.nHeight, call.view)
    /\ UNCHANGED <<chainVars, call, poolVars>>

NextNameDB == DoCheckNameDB

SpecNameDB == InitNameDB /\ [][NextNameDB]_vars

\* CheckNameDB got as far as the verifier, and the verifier reports an
\* inconsistent database.
VerifierRanAndFailed ==
    /\ CallDone
    /\ call.option = 0
          \/ (call.option > 0 /\ ~call.disconnect
                /\ call.nHeight % call.option = 0)
    /\ ~ValidateNameDB(call.view, call.nHeight)

C27_NoDuplicateNameCoin ==
    Committed => \A n \in Names : Cardinality(UpdateOutpointsOf(n)) <= 1

(***************************************************************************)
(* ApplyNameTransaction on the direct calls: the records and the undo list *)
(* it leaves, stated output by output.                                     *)
(***************************************************************************)
\* The view before the called transaction was applied, and the indices of
\* the transaction's name-update outputs.
CallViewBefore == WideView(call.view)
CallUpdateOutputs ==
    {i \in 1 .. Len(call.tx.vout) :
        /\ isNameOp(call.tx.vout[i].scriptPubKey)
        /\ isAnyUpdate(call.tx.vout[i].scriptPubKey)}
CallOutputsNaming(n) ==
    {i \in CallUpdateOutputs : call.tx.vout[i].scriptPubKey.name = n}
MaxOf(S) == CHOOSE x \in S : \A y \in S : y <= x

\* The record output i of the called transaction writes.
CallRecordOf(i) ==
    [value |-> call.tx.vout[i].scriptPubKey.value, nHeight |-> call.nHeight,
     prevout |-> OutPoint(call.tx.hash, i),
     addr |-> call.tx.vout[i].scriptPubKey.addr]

\* The record of output i's name when output i is reached: the one written
\* by the last earlier output for the same name, else the one of the view.
CallPriorRecord(i) ==
    LET n == call.tx.vout[i].scriptPubKey.name
        earlier == {j \in CallOutputsNaming(n) : j < i}
    IN IF earlier = {} THEN GetName(CallViewBefore, n)
       ELSE CallRecordOf(MaxOf(earlier))

\* The called transaction has been applied on the normal path: it is a
\* Namecoin transaction and not listed with a type other than BUG_FULLY_APPLY.
CallAppliedNormally ==
    /\ CallDone
    /\ Applied
    /\ call.tx.namecoin
    /\ ~(CallListed /\ BugType(call.tx.hash, call.nHeight) # "BUG_FULLY_APPLY")

\* C28: on the normal path ApplyNameTransaction at height h leaves one undo
\* record per NAME_FIRSTUPDATE / NAME_UPDATE output, in index order, that
\* holds the name's state before that output (new, or the old record), sets
\* the name's record to {value of the script, h, (tx hash, i), owner} for
\* the last output i that names it, and leaves all other records as they
\* were.
C28_ApplyWritesUndoThenRecord ==
    CallAppliedNormally =>
        /\ Len(cur.vnameundo) = Cardinality(CallUpdateOutputs)
        /\ \A i \in CallUpdateOutputs :
              LET u == cur.vnameundo[Cardinality({j \in CallUpdateOutputs : j <= i})]
              IN /\ u.name = call.tx.vout[i].scriptPubKey.name
                 /\ u.isNew = (CallPriorRecord(i) = NoData)
                 /\ ~u.isNew => u.oldData = CallPriorRecord(i)
        /\ \A n \in AllNames :
              IF CallOutputsNaming(n) = {}
              THEN view.names[n] = CallViewBefore.names[n]
              ELSE view.names[n] = CallRecordOf(MaxOf(CallOutputsNaming(n)))

\* A transaction with two updates of one name was applied to a view that
\* held a record of the name: the second undo record holds the record the
\* first output wrote.
C28_Witness ==
    /\ CallAppliedNormally
    /\ Len(cur.vnameundo) = 2
    /\ ~cur.vnameundo[1].isNew
    /\ cur.vnameundo[1].oldData = GetName(call.view, 1)
    /\ cur.vnameundo[2].oldData = CallRecordOf(1)
    /\ view.names[1] = CallRecordOf(2)

\* The called transaction is listed with a type other than BUG_FULLY_APPLY
\* and has been applied.
CallAppliedListedBug ==
    /\ CallDone
    /\ Applied
    /\ CallListed
    /\ BugType(call.tx.hash, call.nHeight) # "BUG_FULLY_APPLY"

\* C29: for a listed transaction whose type is not BUG_FULLY_APPLY,
\* ApplyNameTransaction leaves the name database (records, history, expire
\* index) and the undo list as they were; with BUG_FULLY_IGNORE every
\* NAME_FIRSTUPDATE / NAME_UPDATE output of the transaction is spent in the
\* UTXO set and nothing else of it changes, with any other type the UTXO set
\* is unchanged; all this whether or not the transaction is marked as
\* Namecoin transaction.
C29_ListedBugNotApplied ==
    CallAppliedListedBug =>
        /\ NameState(view) = NameState(CallViewBefore)
        /\ cur.vnameundo = << >>
        /\ \A t \in (TxIds \cup ListedHashes) \ {call.tx.hash} :
              view.coins[t] = CallCoinsUpdated.view.coins[t]
        /\ IF BugType(call.tx.hash, call.nHeight) = "BUG_FULLY_IGNORE"
           THEN \A i \in 1 .. Len(call.tx.vout) :
                   IsAvailable(view.coins[call.tx.hash], i)
                       <=> i \notin CallUpdateOutputs
           ELSE view.coins = CallCoinsUpdated.view.coins

\* A listed transaction of type BUG_FULLY_IGNORE that is not marked as
\* Namecoin transaction was applied to a view with a record of the name it
\* names: its name output is spent, its currency output is not.
C29_Witness ==
    /\ CallAppliedListedBug
    /\ ~call.tx.namecoin
    /\ BugType(call.tx.hash, call.nHeight) = "BUG_FULLY_IGNORE"
    /\ HaveName(call.view, 1)
    /\ IsAvailable(view.coins[call.tx.hash], 1)
    /\ ~IsAvailable(view.coins[call.tx.hash], 2)

(***************************************************************************)
(* ExpireNames under a schedule of expiration depths, called directly: the *)
(* depth is expDepthOld below the called height and expDepthNow from it    *)
(* on.  The database holds no name, or one name whose record of height r   *)
(* was not expired at the height before (r + expDepthOld >= nHeight).      *)
(***************************************************************************)
MaxScheduleHeight == 5
MaxScheduleDepth == 6

Schedule(nHeight, expDepthOld, expDepthNow) ==
    [h \in {nHeight - 1, nHeight} |-> IF h < nHeight THEN expDepthOld ELSE expDepthNow]

\* The called heights: the first ones and the height of the special rule.
ScheduleHeights == (0 .. MaxScheduleHeight) \cup {PostmortemHeight}

\* The name n registered at height r by transaction n, with its name coin
\* unspent or (as after the name-stealing bug) gone from the UTXO set.
WithRecord(v, n, r, haveCoin) ==
    [v EXCEPT
        !.coins[n] = IF haveCoin
                     THEN [nHeight |-> r,
                           vout |-> <<TxOut(1, NameFirstUpdate(n, 1, 1))>>]
                     ELSE NoCoins,
        !.names[n] = [value |-> 1, nHeight |-> r, prevout |-> OutPoint(n, 1),
                      addr |-> Addr],
        !.expire = @ \cup {<<r, n>>}]

\* The record heights a name can have when ExpireNames (h) is called: not
\* expired at h - 1 under the old depth.
LiveRecordHeights(h, dOld) ==
    {r \in (h - MaxScheduleDepth) .. h : r >= 0 /\ r + dOld >= h}

ScheduleViews(h, dOld) ==
    LET one == {WithRecord(EmptyView, 1, r, TRUE) : r \in LiveRecordHeights(h, dOld)}
    IN {EmptyView} \cup one
        \cup {WithRecord(v, 2, r, c) :
                 v \in {EmptyView} \cup one, r \in LiveRecordHeights(h, dOld),
                 c \in BOOLEAN}

ScheduleCalls ==
    UNION {{[made |-> TRUE, nHeight |-> h, schedule |-> Schedule(h, dOld, dNow),
             view |-> v, names |-> {}, vexpired |-> << >>] :
                v \in ScheduleViews(h, dOld)} :
           h \in ScheduleHeights,
           dOld \in 1 .. MaxScheduleDepth, dNow \in 1 .. MaxScheduleDepth}

InitSchedule ==
    /\ InitChain
    /\ call \in ScheduleCalls
    /\ result = "none"
    /\ InitEmptyPool

DoExpireNames ==
    /\ "schedule" \in DOMAIN call
    /\ result = "none"
    /\ LET ex == ExpireNames(call.nHeight, call.view, << >>) IN
       /\ result' = ex.ok
       /\ view' = ex.view
       /\ call' = [call EXCEPT !.names = ex.names, !.vexpired = ex.vexpired]
    /\ UNCHANGED <<tip, base, chain, cur, poolVars>>

NextSchedule == DoExpireNames

SpecSchedule == InitSchedule /\ [][NextSchedule]_vars

ScheduleDone == "schedule" \in DOMAIN call /\ result # "none"
expDepthOld == call.schedule[call.nHeight - 1]
expDepthNow == call.schedule[call.nHeight]

\* C30: for every height h >= 1 and every schedule with d_old = depth (h-1)
\* and d_new = depth (h) <= h, ExpireNames does not fail the assertion
\* expireFrom <= expireTo + 1 (which an underflow of h - d_old fails), and
\* whenever d_new > d_old it returns success with an empty set of expired
\* names.
C30_ExpireWindowNeverFails ==
    (ScheduleDone /\ call.nHeight >= 1 /\ expDepthNow <= call.nHeight) =>
        /\ result # "AssertFail"
        /\ expDepthNow > expDepthOld => (result = "ok" /\ call.names = {})

\* What holds of the window: with d_old <= h and d_new <= d_old + 1 (and
\* d_new <= h) the assertion holds, and with d_new = d_old + 1 the call
\* succeeds with an empty set.
ExpireWindowHoldsForSlowSchedules ==
    (ScheduleDone /\ call.nHeight >= 1 /\ expDepthNow <= call.nHeight
        /\ expDepthOld <= call.nHeight /\ expDepthNow <= expDepthOld + 1) =>
        /\ result # "AssertFail"
        /\ expDepthNow > expDepthOld => call.names = {}
        /\ \A n \in Names :
              n \in call.names <=>
                  (/\ HaveName(call.view, n)
                   /\ call.view.names[n].nHeight + expDepthNow <= call.nHeight)

\* The names the expire index of the called view holds at the heights
\* h - depth (h-1) .. h - depth (h).
CallExpireWindow ==
    UNION {GetNamesForHeight(call.view, x) :
              x \in (call.nHeight - expDepthOld) .. (call.nHeight - expDepthNow)}

\* The call returned at once: genesis, or no height can have expired yet.
CallNothingCanExpire == call.nHeight = 0 \/ expDepthNow > call.nHeight

\* The names of the returned set whose coin the special rule leaves alone.
CallSkippedNames ==
    IF call.nHeight = PostmortemHeight THEN call.names \cap PostmortemNames ELSE {}

\* The name coin of name n was unspent before the call and is spent after it.
CallCoinSpent(n) ==
    LET out == call.view.names[n].prevout IN
    /\ IsAvailable(call.view.coins[out.hash], out.n)
    /\ ~IsAvailable(view.coins[out.hash], out.n)

\* C31 as stated: ExpireNames at height h returns exactly the names indexed
\* at the heights h - depth (h-1) .. h - depth (h), spends the name coin of
\* each of them and appends one expire-undo entry for each; at h = 0 or with
\* depth (h) > h it returns the empty set and changes neither view nor undo.
C31_ExpireNamesSpendsEveryIndexed ==
    (ScheduleDone /\ result = "ok") =>
        IF CallNothingCanExpire
        THEN call.names = {} /\ view = call.view /\ call.vexpired = << >>
        ELSE /\ call.names = CallExpireWindow
             /\ \A n \in call.names : CallCoinSpent(n)
             /\ Len(call.vexpired) = Cardinality(call.names)

\* C31, amended: whenever ExpireNames at height h returns, the returned set
\* is exactly the names indexed at the heights h - depth (h-1) ..
\* h - depth (h); when it returns success it has spent the name coin of each
\* of them and appended one expire-undo entry for each, except for
\* d/postmortem at height 175868, and it has changed no other coin, no
\* record and no index entry; at h = 0 or with depth (h) > h it returns the
\* empty set and changes neither view nor undo.
C31_ExpireNamesSpendsIndexedButSkipped ==
    (ScheduleDone /\ result # "AssertFail") =>
        IF CallNothingCanExpire
        THEN /\ result = "ok"
             /\ call.names = {} /\ view = call.view /\ call.vexpired = << >>
        ELSE /\ call.names = CallExpireWindow
             /\ result = "ok" =>
                  /\ \A n \in call.names \ CallSkippedNames : CallCoinSpent(n)
                  /\ Len(call.vexpired) = Cardinality(call.names \ CallSkippedNames)
                  /\ {call.vexpired[k].txout.scriptPubKey.name :
                          k \in 1 .. Len(call.vexpired)}
                        = call.names \ CallSkippedNames
                  /\ \A t \in TxIds :
                        t \notin {call.view.names[n].prevout.hash :
                                     n \in call.names \ CallSkippedNames}
                            => view.coins[t] = call.view.coins[t]
                  /\ NameState(view) = NameState(call.view)

\* Two names registered at different heights expired in one call, whose
\* window spans both heights.
C31_Witness ==
    /\ ScheduleDone
    /\ result = "ok"
    /\ call.nHeight <= MaxScheduleHeight
    /\ call.names = {1, 2}
    /\ call.view.names[1].nHeight # call.view.names[2].nHeight
    /\ Len(call.vexpired) = 2

\* The expire-undo entries the call appended for name n.
CallUndoEntriesFor(n) ==
    {k \in 1 .. Len(call.vexpired) : call.vexpired[k].txout.scriptPubKey.name = n}

\* Name n was expired as every name is: its coin spent, one undo entry.
CallExpiredNormally(n) ==
    CallCoinSpent(n) /\ Cardinality(CallUndoEntriesFor(n)) = 1

\* C32: when ExpireNames runs at height 175868 and the expiring set holds
\* d/postmortem, the name is in the returned set, its coin is not touched,
\* no expire-undo entry is appended for it and its missing coin does not
\* fail the call, while every other expiring name is processed normally; at
\* every other height d/postmortem is treated like any name: its coin is
\* spent with one undo entry, and the call fails when the coin is missing.
C32_PostmortemSkippedAtOneHeight ==
    (ScheduleDone /\ result # "AssertFail"
        /\ \E n \in PostmortemNames : n \in CallExpireWindow) =>
        \A n \in PostmortemNames \cap CallExpireWindow :
            LET out == call.view.names[n].prevout IN
            /\ n \in call.names
            /\ IF call.nHeight = PostmortemHeight
               THEN /\ result = "ok"
                    /\ view.coins[out.hash] = call.view.coins[out.hash]
                    /\ CallUndoEntriesFor(n) = {}
                    /\ \A m \in call.names \ PostmortemNames : CallExpiredNormally(m)
               ELSE IF IsAvailable(call.view.coins[out.hash], out.n)
                    THEN result = "ok" /\ CallExpiredNormally(n)
                    ELSE result = "fail"

\* At height 175868 d/postmortem, whose coin is already gone, and another
\* name expired together: the call succeeded with one undo entry.
C32_Witness ==
    /\ ScheduleDone
    /\ call.nHeight = PostmortemHeight
    /\ call.names = {1} \cup PostmortemNames
    /\ \A n \in PostmortemNames : call.view.coins[call.view.names[n].prevout.hash] = NoCoins
    /\ result = "ok"
    /\ Len(call.vexpired) = 1
    /\ CallExpiredNormally(1)

(***************************************************************************)
(* UnexpireNames called directly on drawn expire-undo lists and views      *)
(* (names/main.cpp).  The expiration depth is the constant ExpDepth.       *)
(***************************************************************************)
MaxUndoLen == 2
UnexpireHeights == {0, 3, 4}
UnexpireRecordHeights == {1, 2}

\* The expire-undo entries drawn: name updates of both names, a NAME_NEW
\* and a plain script, each with and without the coin's metadata.
UndoEntries ==
    {[txout |-> TxOut(1, s), nHeight |-> m] :
        s \in {NameFirstUpdate(1, 1, 1), NameUpdate(2, 1), NameNew(5), NoScript},
        m \in {0, 1}}

UndoLists ==
    UNION {[1 .. l -> UndoEntries] : l \in 0 .. MaxUndoLen}

\* Views in which each name has no record, or a record whose coin has been
\* spent by an expiration or is still there.
UnexpireViewsOf(n, vs) ==
    vs \cup {WithRecord(v, n, r, c) :
                v \in vs, r \in UnexpireRecordHeights, c \in BOOLEAN}

UnexpireViews == UnexpireViewsOf(2, UnexpireViewsOf(1, {EmptyView}))

UnexpireCalls ==
    {[made |-> TRUE, nHeight |-> h, undo |-> u, view |-> v, names |-> {}] :
        h \in UnexpireHeights, u \in UndoLists, v \in UnexpireViews}

InitUnexpire ==
    /\ InitChain
    /\ call \in UnexpireCalls
    /\ result = "none"
    /\ InitEmptyPool

DoUnexpireNames ==
    /\ "undo" \in DOMAIN call
    /\ result = "none"
    /\ LET un == UnexpireNames(call.nHeight, call.undo, call.view) IN
       /\ result' = IF un.ok THEN "ok" ELSE "fail"
       /\ view' = un.view
       /\ call' = [call EXCEPT !.names = un.names]
    /\ UNCHANGED <<tip, base, chain, cur, poolVars>>

NextUnexpireCall == DoUnexpireNames

SpecUnexpire == InitUnexpire /\ [][NextUnexpireCall]_vars

UnexpireDone == "undo" \in DOMAIN call /\ result # "none"

UndoScript(k) == call.undo[k].txout.scriptPubKey
UndoIsUpdate(k) == UndoScript(k).op \in {"FIRSTUPDATE", "UPDATE"}

\* Entry k of the undo list is one of the four cases of a bad entry.
UndoWrongScript(k) == ~UndoIsUpdate(k)
UndoNameTwice(k) ==
    \E j \in 1 .. Len(call.undo) :
        j # k /\ UndoIsUpdate(j) /\ UndoIsUpdate(k)
              /\ UndoScript(j).name = UndoScript(k).name
UndoNoRecord(k) ==
    UndoIsUpdate(k) /\ call.view.names[UndoScript(k).name] = NoData
UndoNotJustExpired(k) ==
    /\ UndoIsUpdate(k)
    /\ call.view.names[UndoScript(k).name] # NoData
    /\ LET r == call.view.names[UndoScript(k).name].nHeight IN
       r + ExpDepth > call.nHeight \/ r + ExpDepth <= call.nHeight - 1

UndoBadEntry(k) ==
    UndoWrongScript(k) \/ UndoNameTwice(k) \/ UndoNoRecord(k) \/ UndoNotJustExpired(k)

\* Entry k can be restored: a good entry whose coin is spent in the view.
UndoRestorable(k) ==
    /\ ~UndoBadEntry(k)
    /\ call.view.coins[call.view.names[UndoScript(k).name].prevout.hash] = NoCoins
    /\ call.undo[k].nHeight # 0

UndoRestored(k) ==
    LET out == call.view.names[UndoScript(k).name].prevout IN
    /\ IsAvailable(view.coins[out.hash], out.n)
    /\ view.coins[out.hash].vout[out.n] = call.undo[k].txout

\* The entries behind a bad entry k, all restorable, have been restored
\* (the list is walked from its end) and nothing before k has.
UndoWalkedInReverse ==
    \A k \in 1 .. Len(call.undo) :
        (UndoWrongScript(k) /\ \A j \in (k + 1) .. Len(call.undo) : UndoRestorable(j)) =>
            /\ \A j \in (k + 1) .. Len(call.undo) : UndoRestored(j)
            /\ call.names = {UndoScript(j).name : j \in (k + 1) .. Len(call.undo)}
            /\ \A t \in TxIds :
                  (\A j \in (k + 1) .. Len(call.undo) :
                        call.view.names[UndoScript(j).name].prevout.hash # t)
                  => view.coins[t] = call.view.coins[t]

\* C33 as stated: UnexpireNames at any height h walks the expire-undo list
\* in reverse and returns failure if an undo entry's script is not a name
\* update, if the same name occurs in two entries, if the name has no record
\* in the view, or if the record is not expired at h or is already expired
\* at h-1.
C33_UnexpireFailsOnBadEntry ==
    UnexpireDone =>
        /\ (\E k \in 1 .. Len(call.undo) : UndoBadEntry(k)) => result = "fail"
        /\ UndoWalkedInReverse

\* C33: UnexpireNames at a height h >= 1 walks the expire-undo list in
\* reverse and returns failure if an undo entry's script is not a name
\* update, if the same name occurs in two entries, if the name has no record
\* in the view, or if the record is not expired at h or is already expired
\* at h-1; at h = 0 it returns success without looking at the list.
C33_UnexpireFailsOnBadEntryAboveGenesis ==
    UnexpireDone =>
        IF call.nHeight = 0
        THEN result = "ok" /\ call.names = {} /\ view = call.view
        ELSE /\ (\E k \in 1 .. Len(call.undo) : UndoBadEntry(k)) => result = "fail"
             /\ UndoWalkedInReverse

\* A list of two entries at a height above 0: the first has a wrong script,
\* the second has been restored before the call failed.
C33_Witness ==
    /\ UnexpireDone
    /\ call.nHeight >= 1
    /\ Len(call.undo) = 2
    /\ UndoWrongScript(1)
    /\ UndoRestorable(2)
    /\ UndoRestored(2)
    /\ result = "fail"

(***************************************************************************)
(* The validation state after CheckNameTransaction.                        *)
(***************************************************************************)
\* Every failure is returned through state.Invalid but the failed fetch of
\* an input's coins, which returns the plain error.
StateIsInvalid(err) == err \notin {"ok", "AssertFail", "FetchFail"}

CallReturnedFalse == CallDone /\ "tx" \in DOMAIN call /\ result \notin {"ok", "AssertFail"}

\* C34: whenever CheckNameTransaction returns false, the validation state
\* has been marked invalid, including when the coins of an input cannot be
\* fetched.
C34_FalseMarksStateInvalid ==
    CallReturnedFalse => StateIsInvalid(result)

\* Every failure other than the failed fetch marks the state.
FalseMarksStateInvalidButFetch ==
    (CallReturnedFalse /\ CallInputsFound) => StateIsInvalid(result)

(***************************************************************************)
(* CNameCache (names.h, names.cpp) and its flush to CCoinsViewDB           *)
(* (txdb.cpp).  A cache has the fields entries (name -> CNameData, NoData  *)
(* for a name without entry), deleted (set of names), history (a function  *)
(* on the names with a cached history) and expireIndex (a function from    *)
(* the cached keys <<height, name>> to BOOLEAN).  A store has the fields   *)
(* names ('n' keys), history (a function on the names with an 'h' key) and *)
(* expire (the 'x' keys).                                                  *)
(***************************************************************************)
MaxCacheOps == 3
CacheHeights == {1, 2}
ExpireKeys == CacheHeights \X Names
CacheData(v, h) == [value |-> v, nHeight |-> h, prevout |-> OutPoint(h, 1), addr |-> Addr]
CacheDatas == {CacheData(1, 1), CacheData(2, 2)}
CacheHistories == {<< >>, <<CacheData(1, 1)>>}
NoHistory == [n \in {} |-> << >>]
NoExpireIndex == [k \in {} |-> TRUE]

EmptyCache ==
    [entries |-> [n \in Names |-> NoData], deleted |-> {},
     history |-> NoHistory, expireIndex |-> NoExpireIndex]

\* CNameCache::get looks only in entries.
cacheGet(cache, name) == cache.entries[name]

isDeleted(cache, name) == name \in cache.deleted

getHistory(cache, name) ==
    IF name \in DOMAIN cache.history THEN cache.history[name] ELSE << >>

cacheSet(cache, name, data) ==
    [cache EXCEPT !.deleted = @ \ {name}, !.entries[name] = data]

\* A remove that leaves the entry in place.
cacheRemoveKeepsEntry(cache, name) ==
    [cache EXCEPT !.deleted = @ \cup {name}]

cacheRemove(cache, name) ==
    [cache EXCEPT !.entries[name] = NoData, !.deleted = @ \cup {name}]

setHistory(cache, name, data) ==
    [cache EXCEPT !.history =
        [n \in DOMAIN @ \cup {name} |-> IF n = name THEN data ELSE @[n]]]

setExpireIndex(cache, key, flag) ==
    [cache EXCEPT !.expireIndex =
        [k \in DOMAIN @ \cup {key} |-> IF k = key THEN flag ELSE @[k]]]

cacheAddExpireIndex(cache, name, height) == setExpireIndex(cache, <<height, name>>, TRUE)
cacheRemoveExpireIndex(cache, name, height) == setExpireIndex(cache, <<height, name>>, FALSE)

\* The order of the keys of std::map<ExpireEntry, bool>.
KeyLess(a, b) == a[1] < b[1] \/ (a[1] = b[1] /\ a[2] < b[2])
MinKey(S) == CHOOSE k \in S : \A j \in S : j = k \/ KeyLess(k, j)

\* updateNamesForHeight that walks every cached key, whatever its height.
RECURSIVE updateNamesAllHeights(_, _, _, _)
updateNamesAllHeights(cache, rest, nHeight, names) ==
    IF rest = {}
    THEN names
    ELSE LET entry == MinKey(rest) IN
         IF cache.expireIndex[entry]
         THEN updateNamesAllHeights(cache, rest \ {entry}, nHeight, names \cup {entry[2]})
         ELSE updateNamesAllHeights(cache, rest \ {entry}, nHeight, names \ {entry[2]})

\* The loop of updateNamesForHeight over the keys from the lower bound on.
RECURSIVE updateNamesLoop(_, _, _, _)
updateNamesLoop(cache, rest, nHeight, names) ==
    IF rest = {}
    THEN names
    ELSE LET entry == MinKey(rest) IN
         IF entry[1] > nHeight
         THEN names
         ELSE IF cache.expireIndex[entry]
         THEN updateNamesLoop(cache, rest \ {entry}, nHeight, names \cup {entry[2]})
         ELSE updateNamesLoop(cache, rest \ {entry}, nHeight, names \ {entry[2]})

updateNamesForHeight(cache, nHeight, names) ==
    updateNamesLoop(cache, {k \in DOMAIN cache.expireIndex : k[1] >= nHeight},
                    nHeight, names)

\* CNameCache::apply: the four loops over the other cache.
RECURSIVE applyEntries(_, _, _)
applyEntries(cache, other, todo) ==
    IF todo = {} THEN cache
    ELSE LET n == MinOf(todo) IN
         applyEntries(cacheSet(cache, n, other.entries[n]), other, todo \ {n})

RECURSIVE applyDeleted(_, _)
applyDeleted(cache, todo) ==
    IF todo = {} THEN cache
    ELSE LET n == MinOf(todo) IN applyDeleted(cacheRemove(cache, n), todo \ {n})

RECURSIVE applyHistory(_, _, _)
applyHistory(cache, other, todo) ==
    IF todo = {} THEN cache
    ELSE LET n == MinOf(todo) IN
         applyHistory(setHistory(cache, n, other.history[n]), other, todo \ {n})

RECURSIVE applyExpireIndex(_, _, _)
applyExpireIndex(cache, other, todo) ==
    IF todo = {} THEN cache
    ELSE LET k == MinKey(todo) IN
         applyExpireIndex(setExpireIndex(cache, k, other.expireIndex[k]), other,
                          todo \ {k})

\* An apply that takes over the entries and nothing else.
cacheApplyEntriesOnly(cache, other) ==
    applyEntries(cache, other, {n \in Names : other.entries[n] # NoData})

cacheApply(cache, other) ==
    LET c1 == applyEntries(cache, other, {n \in Names : other.entries[n] # NoData})
        c2 == applyDeleted(c1, other.deleted)
        c3 == applyHistory(c2, other, DOMAIN other.history)
    IN applyExpireIndex(c3, other, DOMAIN other.expireIndex)

\* CNameCache::writeBatch: the writes and erases appended to the batch, in
\* the order of the four loops.
RECURSIVE batchEntries(_, _, _)
batchEntries(cache, batch, todo) ==
    IF todo = {} THEN batch
    ELSE LET n == MinOf(todo) IN
         batchEntries(cache,
                      Append(batch, [op |-> "Write", tag |-> "n", key |-> n,
                                     value |-> cache.entries[n]]),
                      todo \ {n})

RECURSIVE batchDeleted(_, _)
batchDeleted(batch, todo) ==
    IF todo = {} THEN batch
    ELSE LET n == MinOf(todo) IN
         batchDeleted(Append(batch, [op |-> "Erase", tag |-> "n", key |-> n,
                                     value |-> NoData]),
                      todo \ {n})

RECURSIVE batchHistory(_, _, _)
batchHistory(cache, batch, todo) ==
    IF todo = {} THEN batch
    ELSE LET n == MinOf(todo) IN
         batchHistory(cache,
                      Append(batch,
                             IF cache.history[n] = << >>
                             THEN [op |-> "Erase", tag |-> "h", key |-> n,
                                   value |-> << >>]
                             ELSE [op |-> "Write", tag |-> "h", key |-> n,
                                   value |-> cache.history[n]]),
                      todo \ {n})

RECURSIVE batchExpireIndex(_, _, _)
batchExpireIndex(cache, batch, todo) ==
    IF todo = {} THEN batch
    ELSE LET k == MinKey(todo) IN
         batchExpireIndex(cache,
                          Append(batch,
                                 [op |-> IF cache.expireIndex[k] THEN "Write" ELSE "Erase",
                                  tag |-> "x", key |-> k, value |-> TRUE]),
                          todo \ {k})

\* A writeBatch that writes every cached history, the empty ones too.
writeBatchWritesEmpty(cache) ==
    LET b1 == batchEntries(cache, << >>, {n \in Names : cache.entries[n] # NoData})
        b2 == batchDeleted(b1, cache.deleted)
        b3 == b2 \o [i \in 1 .. Cardinality(DOMAIN cache.history) |->
                        LET n == CHOOSE m \in DOMAIN cache.history :
                                   Cardinality({l \in DOMAIN cache.history : l < m}) = i - 1
                        IN [op |-> "Write", tag |-> "h", key |-> n,
                            value |-> cache.history[n]]]
    IN batchExpireIndex(cache, b3, DOMAIN cache.expireIndex)

writeBatch(cache) ==
    LET b1 == batchEntries(cache, << >>, {n \in Names : cache.entries[n] # NoData})
        b2 == batchDeleted(b1, cache.deleted)
        b3 == batchHistory(cache, b2, DOMAIN cache.history)
    IN batchExpireIndex(cache, b3, DOMAIN cache.expireIndex)

\* CLevelDBWrapper::WriteBatch: the operations of the batch in their order.
BatchOp(store, o) ==
    IF o.tag = "n"
    THEN [store EXCEPT !.names[o.key] = IF o.op = "Write" THEN o.value ELSE NoData]
    ELSE IF o.tag = "h"
    THEN [store EXCEPT !.history =
            IF o.op = "Write"
            THEN [n \in DOMAIN @ \cup {o.key} |-> IF n = o.key THEN o.value ELSE @[n]]
            ELSE [n \in DOMAIN @ \ {o.key} |-> @[n]]]
    ELSE [store EXCEPT !.expire =
            IF o.op = "Write" THEN @ \cup {o.key} ELSE @ \ {o.key}]

RECURSIVE WriteBatch(_, _)
WriteBatch(store, batch) ==
    IF batch = << >> THEN store
    ELSE WriteBatch(BatchOp(store, Head(batch)), Tail(batch))

\* CCoinsViewDB::BatchWrite, the name part: the coins and the best block go
\* to keys of other tags in the same batch.
BatchWrite(store, names) == WriteBatch(store, writeBatch(names))

\* The queries of CCoinsViewDB.
StoreGetName(store, name) == store.names[name]
StoreGetNameHistory(store, name) ==
    IF name \in DOMAIN store.history THEN store.history[name] ELSE << >>
StoreGetNamesForHeight(store, nHeight) == GetNamesForHeight(store, nHeight)

\* The queries through a cache on top of the answers of an underlying view
\* (CCoinsViewCache).
GetNameThrough(cache, under, name) ==
    IF cacheGet(cache, name) # NoData THEN cacheGet(cache, name)
    ELSE IF isDeleted(cache, name) THEN NoData
    ELSE under[name]

GetNameHistoryThrough(cache, under, name) ==
    IF name \in DOMAIN cache.history THEN cache.history[name] ELSE under[name]

GetNamesForHeightThrough(cache, under, nHeight) ==
    updateNamesForHeight(cache, nHeight, under[nHeight])

HasExpireKeyThrough(cache, under, key) ==
    IF key \in DOMAIN cache.expireIndex THEN cache.expireIndex[key] ELSE key \in under

(***************************************************************************)
(* Sequences of operations on two caches A and B over one store.           *)
(***************************************************************************)
QueryHeights == CacheHeights \cup {3}

StoreWith(n, d, hist) ==
    [names |-> [m \in Names |-> IF m <= n THEN d ELSE NoData],
     history |-> [m \in {m \in Names : m <= n} |-> hist],
     expire |-> {<<d.nHeight, m>> : m \in {m \in Names : m <= n}}]

\* The store the caches start on: the first name with a record, a history
\* and an index entry, the second name absent.
CacheStores == {StoreWith(1, CacheData(2, 2), <<CacheData(1, 1)>>)}

Last(op, data) == [op |-> op, data |-> data]
Untouched == [n \in Names |-> Last("untouched", NoData)]

CacheCalls ==
    {[made |-> TRUE, store |-> s, A |-> EmptyCache, B |-> EmptyCache,
      oldA |-> EmptyCache, oldStore |-> s, lastA |-> Untouched, lastB |-> Untouched,
      ops |-> 0, step |-> "none"] : s \in CacheStores}

InitCache ==
    /\ InitChain
    /\ call \in CacheCalls
    /\ result = "none"
    /\ InitEmptyPool

CacheStep(c) ==
    /\ "A" \in DOMAIN call
    /\ call.ops < MaxCacheOps
    /\ call' = [c EXCEPT !.ops = call.ops + 1]
    /\ UNCHANGED <<chainVars, result, poolVars>>

DoSet ==
    \E n \in Names, d \in CacheDatas :
        \/ CacheStep([call EXCEPT !.A = cacheSet(@, n, d), !.lastA[n] = Last("set", d),
                                  !.step = "set"])
        \/ CacheStep([call EXCEPT !.B = cacheSet(@, n, d), !.lastB[n] = Last("set", d),
                                  !.step = "set"])

DoRemove ==
    \E n \in Names :
        \/ CacheStep([call EXCEPT !.A = cacheRemove(@, n), !.lastA[n] = Last("removed", NoData),
                                  !.step = "remove"])
        \/ CacheStep([call EXCEPT !.B = cacheRemove(@, n), !.lastB[n] = Last("removed", NoData),
                                  !.step = "remove"])

DoSetHistory ==
    \E n \in Names, hist \in CacheHistories :
        \/ CacheStep([call EXCEPT !.A = setHistory(@, n, hist), !.step = "setHistory"])
        \/ CacheStep([call EXCEPT !.B = setHistory(@, n, hist), !.step = "setHistory"])

DoAddExpireIndex ==
    \E n \in Names, h \in CacheHeights :
        \/ CacheStep([call EXCEPT !.A = cacheAddExpireIndex(@, n, h),
                                  !.step = "addExpireIndex"])
        \/ CacheStep([call EXCEPT !.B = cacheAddExpireIndex(@, n, h),
                                  !.step = "addExpireIndex"])

DoRemoveExpireIndex ==
    \E n \in Names, h \in CacheHeights :
        \/ CacheStep([call EXCEPT !.A = cacheRemoveExpireIndex(@, n, h),
                                  !.step = "removeExpireIndex"])
        \/ CacheStep([call EXCEPT !.B = cacheRemoveExpireIndex(@, n, h),
                                  !.step = "removeExpireIndex"])

\* A.apply (B); the last operation on a name is then the last one of B, or
\* of A for a name B never touched.
DoApply ==
    CacheStep([call EXCEPT !.oldA = call.A, !.A = cacheApply(call.A, call.B),
                           !.lastA = [n \in Names |->
                                        IF call.lastB[n].op = "untouched"
                                        THEN call.lastA[n] ELSE call.lastB[n]],
                           !.step = "apply"])

\* The store's BatchWrite with cache A.
DoFlush ==
    CacheStep([call EXCEPT !.oldStore = call.store,
                           !.store = BatchWrite(call.store, call.A),
                           !.step = "flush"])

NextCache ==
    \/ DoSet
    \/ DoRemove
    \/ DoSetHistory
    \/ DoAddExpireIndex
    \/ DoRemoveExpireIndex
    \/ DoApply
    \/ DoFlush

SpecCache == InitCache /\ [][NextCache]_vars

CacheMade == "A" \in DOMAIN call

\* The answers of the store, as functions.
StoreNames(store) == [n \in Names |-> StoreGetName(store, n)]
StoreHistories(store) == [n \in Names |-> StoreGetNameHistory(store, n)]
StoreHeights(store) == [h \in QueryHeights |-> StoreGetNamesForHeight(store, h)]

\* What the last operation on a name makes of a lookup.
LastAnswer(last, under, n) ==
    IF last[n].op = "untouched" THEN under[n]
    ELSE IF last[n].op = "removed" THEN NoData
    ELSE last[n].data

\* C35: after any sequence of set, remove and apply on a CNameCache, the
\* cached entries and the deleted names are disjoint, and the lookup of a
\* name through entries, deleted and the underlying view returns the data
\* of the most recent set of the name, absent if the most recent operation
\* on it was a remove, and the underlying view's answer if the name was
\* never touched.
C35_LookupFollowsLastOperation ==
    CacheMade =>
        /\ \A n \in Names : ~(cacheGet(call.A, n) # NoData /\ isDeleted(call.A, n))
        /\ \A n \in Names : ~(cacheGet(call.B, n) # NoData /\ isDeleted(call.B, n))
        /\ \A n \in Names :
              /\ GetNameThrough(call.A, StoreNames(call.store), n)
                    = LastAnswer(call.lastA, StoreNames(call.store), n)
              /\ GetNameThrough(call.B, StoreNames(call.store), n)
                    = LastAnswer(call.lastB, StoreNames(call.store), n)

\* After an apply, a name the store holds is absent through the cache
\* because its last operation was a remove, and the other name has the data
\* of its last set.
C35_Witness ==
    /\ CacheMade
    /\ call.step = "apply"
    /\ call.ops = 3
    /\ call.lastA[1].op = "removed"
    /\ StoreGetName(call.store, 1) # NoData
    /\ GetNameThrough(call.A, StoreNames(call.store), 1) = NoData
    /\ call.lastA[2].op = "set"
    /\ GetNameThrough(call.A, StoreNames(call.store), 2) = call.lastA[2].data

\* The answers through the old A, on which B is stacked.
ThroughOldA ==
    [n \in Names |-> GetNameThrough(call.oldA, StoreNames(call.store), n)]
HeightsThroughOldA ==
    [h \in QueryHeights |->
        GetNamesForHeightThrough(call.oldA, StoreHeights(call.store), h)]

\* C36: for caches A and B over the same base view, after A.apply (B) every
\* name lookup and every names-at-height query through A gives the answer
\* of the query through B stacked on top of the old A: a name set in B
\* overrides a deletion in A, a name deleted in B overrides an entry in A,
\* and B's expire-index delta for a key overrides A's.
C36_ApplyEqualsStacking ==
    (CacheMade /\ call.step = "apply") =>
        /\ \A n \in Names :
              GetNameThrough(call.A, StoreNames(call.store), n)
                 = GetNameThrough(call.B, ThroughOldA, n)
        /\ \A h \in QueryHeights :
              GetNamesForHeightThrough(call.A, StoreHeights(call.store), h)
                 = GetNamesForHeightThrough(call.B, HeightsThroughOldA, h)
        /\ \A n \in Names :
              /\ (cacheGet(call.B, n) # NoData /\ isDeleted(call.oldA, n)) =>
                    (cacheGet(call.A, n) = cacheGet(call.B, n) /\ ~isDeleted(call.A, n))
              /\ (isDeleted(call.B, n) /\ cacheGet(call.oldA, n) # NoData) =>
                    (cacheGet(call.A, n) = NoData /\ isDeleted(call.A, n))
        /\ \A k \in DOMAIN call.B.expireIndex :
              call.A.expireIndex[k] = call.B.expireIndex[k]
        /\ \A k \in DOMAIN call.oldA.expireIndex \ DOMAIN call.B.expireIndex :
              call.A.expireIndex[k] = call.oldA.expireIndex[k]

\* An apply in which B's delta for an expire key has replaced the opposite
\* delta of A.
C36_Witness ==
    /\ CacheMade
    /\ call.step = "apply"
    /\ \E k \in DOMAIN call.B.expireIndex \cap DOMAIN call.oldA.expireIndex :
          /\ call.B.expireIndex[k] # call.oldA.expireIndex[k]
          /\ call.A.expireIndex[k] = call.B.expireIndex[k]

\* An apply in which a set of B has replaced a deletion of A.
ApplySetOverDeletion ==
    /\ CacheMade
    /\ call.step = "apply"
    /\ \E n \in Names : cacheGet(call.B, n) # NoData /\ isDeleted(call.oldA, n)

\* An apply in which a deletion of B has replaced an entry of A.
ApplyDeletionOverSet ==
    /\ CacheMade
    /\ call.step = "apply"
    /\ \E n \in Names : isDeleted(call.B, n) /\ cacheGet(call.oldA, n) # NoData

\* The names whose cached delta at height h is the given one.
CachedDelta(cache, h, flag) ==
    {n \in Names : <<h, n>> \in DOMAIN cache.expireIndex /\ cache.expireIndex[<<h, n>>] = flag}

\* C37: the names-at-height query through a cache for height h equals the
\* underlying view's names at h, plus every name whose cached expire-index
\* delta at height h is 'add', minus every name whose cached delta at
\* height h is 'remove'; deltas recorded for other heights never change the
\* result.
C37_NamesAtHeightAppliesDeltas ==
    CacheMade =>
        \A h \in QueryHeights :
            GetNamesForHeightThrough(call.A, StoreHeights(call.store), h)
               = (StoreGetNamesForHeight(call.store, h) \cup CachedDelta(call.A, h, TRUE))
                    \ CachedDelta(call.A, h, FALSE)

\* The cache removes a name the store indexes at one height and adds it at
\* another: the queries at both heights differ from the store's, each by
\* its own delta.
C37_Witness ==
    /\ CacheMade
    /\ \E n \in Names, h1, h2 \in CacheHeights :
          /\ h1 # h2
          /\ n \in StoreGetNamesForHeight(call.store, h1)
          /\ n \in CachedDelta(call.A, h1, FALSE)
          /\ n \in CachedDelta(call.A, h2, TRUE)
          /\ n \notin GetNamesForHeightThrough(call.A, StoreHeights(call.store), h1)
          /\ n \in GetNamesForHeightThrough(call.A, StoreHeights(call.store), h2)

\* C38: after a cache is flushed with writeBatch, reading the persistent
\* store gives for every name, history key and expire key the answer the
\* cache stacked on the store gave before the flush; flushing the same
\* cache a second time leaves the store unchanged, and a name whose cached
\* history is empty has its history key deleted.
C38_FlushEqualsStacking ==
    (CacheMade /\ call.step = "flush") =>
        /\ \A n \in Names :
              /\ StoreGetName(call.store, n)
                    = GetNameThrough(call.A, StoreNames(call.oldStore), n)
              /\ StoreGetNameHistory(call.store, n)
                    = GetNameHistoryThrough(call.A, StoreHistories(call.oldStore), n)
        /\ \A k \in ExpireKeys \cup call.store.expire \cup call.oldStore.expire :
              (k \in call.store.expire)
                 = HasExpireKeyThrough(call.A, call.oldStore.expire, k)
        /\ BatchWrite(call.store, call.A) = call.store
        /\ \A n \in DOMAIN call.A.history :
              call.A.history[n] = << >> => n \notin DOMAIN call.store.history

\* A flush that deleted a history key of the store because the cached
\* history is empty, and a name of the store because the cache deleted it.
C38_Witness ==
    /\ CacheMade
    /\ call.step = "flush"
    /\ \E n \in DOMAIN call.A.history :
          /\ call.A.history[n] = << >>
          /\ n \in DOMAIN call.oldStore.history
          /\ n \notin DOMAIN call.store.history
    /\ \E n \in Names :
          /\ isDeleted(call.A, n)
          /\ StoreGetName(call.oldStore, n) # NoData
          /\ StoreGetName(call.store, n) = NoData

(***************************************************************************)
(* ValidateNameDB called directly on drawn databases (txdb.cpp).           *)
(***************************************************************************)
ValidateHeights == {3, 4}
ValidateRecordHeights == {1, 2}

\* The state of one name in a drawn database: its record, its expire-index
\* entries, and the outputs of the transactions n and n + 2 (a name update
\* of n in the first; a name update of n or a NAME_NEW in the second).
NameStates ==
    [record : {0} \cup ValidateRecordHeights,
     index : SUBSET ValidateRecordHeights,
     first : BOOLEAN,
     second : {"none", "update", "new"}]

ValidateCoins(n, r, script) ==
    [nHeight |-> r, vout |-> <<TxOut(1, script)>>]

ValidateView(s) ==
    [coins |-> [t \in TxIds |->
                  IF t \in Names
                  THEN IF s[t].first
                       THEN ValidateCoins(t, 1, NameFirstUpdate(t, 1, 1))
                       ELSE NoCoins
                  ELSE IF t - 2 \in Names
                  THEN IF s[t - 2].second = "update"
                       THEN ValidateCoins(t - 2, 2, NameUpdate(t - 2, 1))
                       ELSE IF s[t - 2].second = "new"
                       THEN ValidateCoins(t - 2, 2, NameNew(5))
                       ELSE NoCoins
                  ELSE NoCoins],
     names |-> [n \in Names |->
                  IF s[n].record = 0 THEN NoData
                  ELSE [value |-> 1, nHeight |-> s[n].record,
                        prevout |-> OutPoint(n, 1), addr |-> Addr]],
     expire |-> UNION {{<<r, n>> : r \in s[n].index} : n \in Names},
     history |-> [n \in Names |-> << >>]]

ValidateCalls ==
    {[made |-> TRUE, nHeight |-> h, db |-> ValidateView(s)] :
        h \in ValidateHeights, s \in [Names -> NameStates]}

InitValidate ==
    /\ InitChain
    /\ call \in ValidateCalls
    /\ result = "none"
    /\ InitEmptyPool

DoValidateNameDB ==
    /\ "db" \in DOMAIN call
    /\ result = "none"
    /\ result' = IF ValidateNameDB(call.db, call.nHeight) THEN "true" ELSE "false"
    /\ UNCHANGED <<chainVars, call, poolVars>>

NextValidate == DoValidateNameDB

SpecValidate == InitValidate /\ [][NextValidate]_vars

ValidateDone == "db" \in DOMAIN call /\ result # "none"

\* The unspent name-update outputs of the database that carry name n.
UpdateOutputsOf(n) ==
    {<<t, i>> \in TxIds \X (1 .. 1) :
        /\ call.db.coins[t] # NoCoins
        /\ i <= Len(call.db.coins[t].vout)
        /\ call.db.coins[t].vout[i].nValue # -1
        /\ call.db.coins[t].vout[i].scriptPubKey.op \in {"FIRSTUPDATE", "UPDATE"}
        /\ call.db.coins[t].vout[i].scriptPubKey.name = n}

IndexHeightsOf(n) == {e[1] : e \in {x \in call.db.expire : x[2] = n}}
HasRecord(n) == call.db.names[n] # NoData
LiveAtTip(n) ==
    HasRecord(n) /\ call.db.names[n].nHeight + ExpDepth > call.nHeight

NoNameInTwoOutputs == \A n \in Names : Cardinality(UpdateOutputsOf(n)) <= 1
NoNameInTwoIndexEntries == \A n \in Names : Cardinality(IndexHeightsOf(n)) <= 1
IndexHeightsEqualRecordHeights ==
    \A n \in Names :
        IndexHeightsOf(n) = IF HasRecord(n) THEN {call.db.names[n].nHeight} ELSE {}
LiveNamesEqualOutputNames ==
    \A n \in Names : LiveAtTip(n) <=> UpdateOutputsOf(n) # {}

\* C39: ValidateNameDB returns true if and only if no name occurs in two
\* unspent name-update outputs, no name occurs in two expire-index entries,
\* the map name -> height of the index equals the one of the records, and
\* the set of names not expired at the tip equals the set of names in
\* unspent name-update outputs.
C39_ValidateIffFourConditions ==
    ValidateDone =>
        (result = "true" <=>
            /\ NoNameInTwoOutputs
            /\ NoNameInTwoIndexEntries
            /\ IndexHeightsEqualRecordHeights
            /\ LiveNamesEqualOutputNames)

\* A database with a live name and an expired name that passed.
C39_Witness ==
    /\ ValidateDone
    /\ result = "true"
    /\ \E n \in Names : LiveAtTip(n)
    /\ \E n \in Names : HasRecord(n) /\ ~LiveAtTip(n)

\* Each of the four conditions fails alone in some database that was
\* rejected.
ValidateRejectsTwoOutputs ==
    /\ ValidateDone /\ result = "false"
    /\ ~NoNameInTwoOutputs /\ NoNameInTwoIndexEntries
    /\ IndexHeightsEqualRecordHeights
    /\ \A n \in Names : LiveAtTip(n) <=> UpdateOutputsOf(n) # {}
ValidateRejectsTwoIndexEntries ==
    /\ ValidateDone /\ result = "false"
    /\ NoNameInTwoOutputs /\ ~NoNameInTwoIndexEntries /\ LiveNamesEqualOutputNames
ValidateRejectsHeightMismatch ==
    /\ ValidateDone /\ result = "false"
    /\ NoNameInTwoOutputs /\ NoNameInTwoIndexEntries
    /\ ~IndexHeightsEqualRecordHeights /\ LiveNamesEqualOutputNames
ValidateRejectsNameMismatch ==
    /\ ValidateDone /\ result = "false"
    /\ NoNameInTwoOutputs /\ NoNameInTwoIndexEntries
    /\ IndexHeightsEqualRecordHeights /\ ~LiveNamesEqualOutputNames

\* The name transactions other than the one of entry e that carry a
\* NAME_NEW output with the hash of e's NAME_NEW.
SameNewTxs(e) ==
    {[hash |-> h, namecoin |-> TRUE, vin |-> << >>,
      vout |-> <<TxOut(MinNameCoinAmount(0), s)>>] :
        h \in TxIds \ {e.hash},
        s \in {x \in NameScripts : x.op = "NEW" /\ x.hash = e.nameOp.hash}}

\* C40: while a NAME_NEW transaction with hash H is in the mempool, checkTx
\* returns false for every other transaction carrying a NAME_NEW output
\* with the hash H and true for the same transaction offered again, and
\* addUnchecked of the same transaction a second time fails no assertion
\* and leaves the index as it is.
C40_PendingNewBlocksOthersOnly ==
    \A e \in mapTx :
        isNameNew(e) =>
            /\ \A t2 \in SameNewTxs(e) : ~checkTx(pool, t2)
            /\ checkTx(pool, e.tx)
            /\ ~poolAbort => addUnchecked(pool, e.hash, e) = pool

\* Two NAME_NEW transactions with different hashes are in the pool, and
\* other transactions with their hashes exist.
C40_Witness ==
    \E e, f \in mapTx :
        /\ isNameNew(e) /\ isNameNew(f)
        /\ e.nameOp.hash # f.nameOp.hash
        /\ SameNewTxs(e) # {}
        /\ ~poolAbort

====
